---- MODULE Spec2Model ----
(***************************************************************************)
(* Model of the MSM DSI display-panel control core:                         *)
(*   msm/dsi/dsi_backlight.c     brightness mapping, HBM ranges and         *)
(*                               dimming, LP binning, DPMS state machine    *)
(*   msm/dsi/dsi_panel_switch.c  refresh-rate switch worker, gamma store    *)
(*                                                                         *)
(* Spec       handlers of the backlight as atomic steps (each runs with     *)
(*            panel_lock and/or state_lock held for its whole body).        *)
(* SpecLocks  the same handlers and the workers as threads that take and    *)
(*            release panel_lock and state_lock step by step.               *)
(***************************************************************************)
EXTENDS Integers, Sequences, FiniteSets, TLC

(***************************************************************************)
(* Bounds of the model.                                                    *)
(***************************************************************************)
\* brightness_max_level of the modelled panels (user-space range 0..MaxBri)
MaxBri == 3
\* num_dimming_frames of the HBM range that dims
NumFrames == 2
\* pdata->switch_te_listen_count, the TE events the switch worker listens for
TeListenCount == 2
\* most CRTC vblank references the model lets the dimming controller hold
MaxRefs == 1

(***************************************************************************)
(* Program constants.                                                      *)
(***************************************************************************)
MAX_BL_SCALE_LEVEL == 1024
MAX_SV_BL_SCALE_LEVEL == 65535
\* sentinel of hbm->cur_range: "no range entered"
HBM_RANGE_MAX == 4
\* bl->bl_actual = -1 (u32 0xFFFFFFFF; kept as -1, compared as unsigned below)
BL_ACTUAL_INVALID == -1
\* a NULL node / NULL command-set pointer
NULLP == 0
U16_LIMIT == 65536

FBBLANK == "FBBLANK"
SUSPENDED == "SUSPENDED"
LP == "LP"
LP2 == "LP2"
Flags == {FBBLANK, SUSPENDED, LP, LP2}

FB_BLANK_UNBLANK == "UNBLANK"
FB_BLANK_POWERDOWN == "POWERDOWN"

SDE_MODE_DPMS_ON == "ON"
SDE_MODE_DPMS_LP1 == "LP1"
SDE_MODE_DPMS_LP2 == "LP2"
SDE_MODE_DPMS_OFF == "OFF"
DpmsModes == {SDE_MODE_DPMS_ON, SDE_MODE_DPMS_LP1, SDE_MODE_DPMS_LP2, SDE_MODE_DPMS_OFF}

HBM_MODE_OFF == "HBM_OFF"
HBM_MODE_ON == "HBM_ON"

REGULATOR_MODE_STANDBY == "STANDBY"
REGULATOR_MODE_IDLE == "IDLE"
REGULATOR_MODE_NORMAL == "NORMAL"

(***************************************************************************)
(* Panel configurations (what dsi_panel_bl_parse_config and the register   *)
(* functions leave in struct dsi_backlight_config).                        *)
(***************************************************************************)
\* ranges[0]: user 1..2 -> panel 2..6, no dimming;
\* ranges[1]: user 3..MaxBri -> panel above bl_max_level, dims NumFrames frames
HbmRanges ==
    << [user_bri_start |-> 1, user_bri_end |-> 2,
        panel_bri_start |-> 2, panel_bri_end |-> 6, num_dimming_frames |-> 0],
       [user_bri_start |-> 3, user_bri_end |-> MaxBri,
        panel_bri_start |-> 3 * MaxBri, panel_bri_end |-> 3 * MaxBri + 2,
        num_dimming_frames |-> NumFrames] >>

\* the ranges of the panel whose two ranges both dim, for different numbers
\* of frames
DimmingRanges ==
    << [user_bri_start |-> 1, user_bri_end |-> 2,
        panel_bri_start |-> 2, panel_bri_end |-> 6,
        num_dimming_frames |-> NumFrames + 1],
       [user_bri_start |-> 3, user_bri_end |-> MaxBri,
        panel_bri_start |-> 3 * MaxBri, panel_bri_end |-> 3 * MaxBri + 2,
        num_dimming_frames |-> NumFrames] >>

NoRanges == << >>

\* the LUT of the LUT panel: lut[i] for i in 0..brightness_max_level
Lut == [i \in 0..MaxBri |-> IF i = 0 THEN 0 ELSE 2 * i + 1]

\* Besides the parsed configuration a scenario fixes the sets its inputs are
\* drawn from: dpms (power modes requested), gates (values written to
\* allow_bl_update and panel_initialized), scales (values of bl_scale), and uci
\* (the build has CONFIG_UCI).
BaseCfg ==
    [ name |-> "dcs-linear", update_bl |-> "dcs", has_lut |-> FALSE,
      has_hbm |-> FALSE, bl_min_level |-> 4, bl_max_level |-> 2 * MaxBri + 4,
      brightness_max_level |-> MaxBri, thresholds |-> << >>,
      uci |-> FALSE, scales |-> {MAX_BL_SCALE_LEVEL}, dpms |-> DpmsModes,
      gates |-> {TRUE} ]

OnOff == {SDE_MODE_DPMS_ON, SDE_MODE_DPMS_OFF}

Configs ==
    { BaseCfg,
      [BaseCfg EXCEPT !.name = "dcs-gated", !.dpms = OnOff, !.gates = BOOLEAN],
      [BaseCfg EXCEPT !.name = "dcs-lut", !.has_lut = TRUE, !.dpms = OnOff],
      [BaseCfg EXCEPT !.name = "dcs-hbm", !.has_hbm = TRUE, !.dpms = OnOff],
      [BaseCfg EXCEPT !.name = "binned-lp", !.update_bl = "binned",
                      !.thresholds = <<1, 2>>],
      [BaseCfg EXCEPT !.name = "dcs-uci", !.uci = TRUE, !.dpms = OnOff],
      [BaseCfg EXCEPT !.name = "dcs-scaled", !.dpms = OnOff,
                      !.scales = {MAX_BL_SCALE_LEVEL \div 2, MAX_BL_SCALE_LEVEL}] }

VARIABLES
    cfg,                \* the registered panel's configuration
    props_brightness,   \* bd->props.brightness
    props_state,        \* bd->props.state (set of flags)
    props_power,        \* bd->props.power
    bl_actual,          \* bl->bl_actual
    last_state,         \* bl->last_state
    allow_bl_update,    \* bl->allow_bl_update
    bl_update_pending,  \* bl->bl_update_pending
    bl_scale,           \* bl->bl_scale
    bl_scale_sv,        \* bl->bl_scale_sv
    panel_initialized,  \* dsi_panel_initialized(panel)
    hbm_mode,           \* panel->hbm_mode
    hbm,                \* struct hbm_data: cur_range and the dimming controller
    vblank_refs,        \* CRTC vblank references held by the dimming controller
    crtc_attached,      \* display->bridge->base.encoder->crtc != NULL
    last_lp_mode,       \* lp_data->last_lp_mode (index into mode_list, 0 = NULL)
    regulator_mode,     \* mode last set on bl->lab_vreg
    backlight_dimmer,   \* static backlight_dimmer (CONFIG_UCI)
    first_brightness_set, \* static first_brightness_set (CONFIG_UCI)
    registered,         \* the backlight is registered (FALSE after unregister)
    last_dpms,          \* power mode of the last dsi_backlight_late_dpms ("": none)
    out,                \* what the last handler did (observed, not program state)
    prev_call           \* the update_status call that immediately precedes

blvars == << cfg, props_brightness, props_state, props_power, bl_actual, last_state,
             allow_bl_update, bl_update_pending, bl_scale, bl_scale_sv,
             panel_initialized, hbm_mode, hbm, vblank_refs, crtc_attached,
             last_lp_mode, regulator_mode, backlight_dimmer, first_brightness_set,
             registered, last_dpms, out, prev_call >>

\* Threads, the two mutexes and the panel-switch worker
VARIABLES
    panel_lock,         \* owner of panel->panel_lock (NoOwner: free)
    state_lock,         \* owner of bl->state_lock (NoOwner: free)
    pc,                 \* where each thread is in the function it runs
    switch_work,        \* pdata->switch_work: "idle", "queued" or "running"
    gamma_work,         \* sdata->gamma_work: "idle", "queued" or "running"
    display_mode,       \* pdata->display_mode (0: NULL, else a mode)
    cur_mode,           \* panel->cur_mode
    switch_pending,     \* pdata->switch_pending
    te,                 \* the worker's TE wait: listener added, waits left, rc
    gamma_ready,        \* sdata->gamma_ready
    burst,              \* the thread in the middle of a burst of DSI transfers
    last_write,         \* the last DSI transfer: by whom, lock held, burst intact
    lock_order_ok       \* no panel_lock acquisition happened under state_lock

lkvars == << panel_lock, state_lock, pc, switch_work, gamma_work, display_mode,
             cur_mode, switch_pending, te, gamma_ready, burst, last_write,
             lock_order_ok >>

\* The s6e3hc2 panel family: its modes and their gamma buffers
VARIABLES
    modes,              \* refresh rates of the panel's display modes, in order
    gamma_data,         \* per refresh rate: mode->priv_info->switch_data
                        \* (NoBufs: not allocated, else the gamma buffers)
    wire,               \* the DSI messages of the last panel operation
    pout                \* what the last panel operation was and returned

gmvars == << modes, gamma_data, wire, pout >>

VARIABLES
    hbm_dt,             \* the device tree handed to dsi_panel_bl_parse_config
    bl_parse            \* what dsi_panel_bl_parse_config returned and left in
                        \* bl->hbm

dtvars == << hbm_dt, bl_parse >>

VARIABLES
    after_allow         \* fresh: allow_bl_update was set and update_status has
                        \* not run since; first_pending: the last handler was
                        \* the first update_status since, and bl_update_pending
                        \* was set when it began (observed, not program state)

VARIABLES
    dimming_work        \* hbm->dimming_work on hbm->dimming_workq: "idle",
                        \* "queued", "running", or "requeued" (queued again
                        \* while it runs)

VARIABLES
    lerp_io             \* the arguments of a call of dsi_backlight_lerp and,
                        \* once it returned, its result

VARIABLES
    irc_io              \* hbm->irc_addr, hbm->irc_bit_offset and hbm->irc_data,
                        \* and what the last dsi_panel_bl_update_irc did

VARIABLES
    pdata               \* struct panel_switch_data beyond lkvars: idle_mode
                        \* and switch_te_listen_count, the arguments and
                        \* locals of the calls in progress, whether the gamma
                        \* buffers and the worker still exist, and what the
                        \* panel was last switched to (observed)

auxvars == << after_allow, dimming_work, lerp_io, irc_io, pdata >>

\* what neither the backlight handlers nor the lock model touch
sidevars == << gmvars, dtvars, auxvars >>

vars == << blvars, lkvars, sidevars >>

(***************************************************************************)
(* Arithmetic helpers.                                                     *)
(***************************************************************************)
EINVAL == -22

\* C integer division truncates toward zero
TruncDiv(a, b) == IF a >= 0 THEN a \div b ELSE -((-a) \div b)

\* a u16 parameter keeps the low 16 bits of its argument
U16(x) == x % U16_LIMIT

\* mult_frac(x, numer, denom)
mult_frac(x, numer, denom) ==
    (x \div denom) * numer + ((x % denom) * numer) \div denom

\* An int is 32 bits wide and the kernel is built with -fno-strict-overflow:
\* arithmetic on int wraps.  The operators below give the wrapped result
\* without computing a number outside the 32 bits.
INT_MAX == 2147483647

\* a + b on int, for b >= 0
WrapAdd(a, b) ==
    IF a > INT_MAX - b THEN (a - INT_MAX) + (b - INT_MAX) - 2 ELSE a + b

\* a - b on int, for b >= 0
WrapSub(a, b) ==
    IF a < (b - INT_MAX) - 1 THEN (a + INT_MAX) + (INT_MAX - b) + 2 ELSE a - b

\* a * b on int, for a, b in 0..65535 (two promoted u16 differences)
WrapMul(a, b) ==
    IF a <= 46340 /\ b <= 46340 THEN a * b
    ELSE LET t1 == a * (b \div 256)
             t2 == a * (b % 256)
             low == (t1 % 65536) * 256 + t2
             top == ((t1 \div 65536) + (low \div 16777216)) % 256
             rest == low % 16777216
         IN  IF top < 128 THEN top * 16777216 + rest
             ELSE (top - 256) * 16777216 + rest

\* DIV_ROUND_CLOSEST(x, divisor) on int operands, divisor > 0
DIV_ROUND_CLOSEST(x, d) ==
    IF (x > 0) = (d > 0) THEN TruncDiv(WrapAdd(x, d \div 2), d)
                         ELSE TruncDiv(WrapSub(x, d \div 2), d)

\* dsi_backlight_lerp: [rc, y]; y is meaningful only when rc = 0
dsi_backlight_lerp(px1, px2, py1, py2, px) ==
    LET x1 == U16(px1)
        x2 == U16(px2)
        y1 == U16(py1)
        y2 == U16(py2)
        x  == U16(px)
    IN  IF (x2 < x1) \/ (y2 < y1) THEN [rc |-> EINVAL, y |-> 0]
        ELSE IF (x2 - x1 = 0) \/ (x <= x1) THEN [rc |-> 0, y |-> y1]
        ELSE IF x >= x2 THEN [rc |-> 0, y |-> y2]
        ELSE [rc |-> 0,
              y |-> DIV_ROUND_CLOSEST(WrapMul(x - x1, y2 - y1), x2 - x1) + y1]

(***************************************************************************)
(* Brightness mapper.                                                      *)
(***************************************************************************)
\* static backlight_min (CONFIG_UCI), used instead of bl_min_level when the
\* backlight dimmer is on
backlight_min == 3

\* dsi_backlight_calculate_normal with a linear map that starts at level 1
\* whatever bl_min_level is
dsi_backlight_calculate_normal_from_1(c, dimmer, brightness) ==
    IF c.has_lut
    THEN IF brightness > c.brightness_max_level
         THEN Lut[c.brightness_max_level]
         ELSE Lut[brightness]
    ELSE LET l == dsi_backlight_lerp(1, c.brightness_max_level, 1,
                                     c.bl_max_level, brightness)
         IN  IF l.rc # 0 THEN 0 ELSE l.y

\* dsi_backlight_calculate_normal
dsi_backlight_calculate_normal(c, dimmer, brightness) ==
    IF c.has_lut
    THEN IF brightness > c.brightness_max_level
         THEN Lut[c.brightness_max_level]
         ELSE Lut[brightness]
    ELSE LET l == dsi_backlight_lerp(
                      1, c.brightness_max_level,
                      IF dimmer THEN backlight_min
                      ELSE (IF c.bl_min_level # 0 THEN c.bl_min_level ELSE 1),
                      c.bl_max_level, brightness)
         IN  IF l.rc # 0 THEN 0 ELSE l.y

(***************************************************************************)
(* HBM engine: range selection and the dimming controller.                 *)
(* A dimming state d is [hbm: struct hbm_data, refs: vblank references,     *)
(* cmds: command sets sent to the panel].                                  *)
(***************************************************************************)
Ranges(c) ==
    IF ~c.has_hbm THEN NoRanges
    ELSE IF c.name = "dcs-hbm-dimming" THEN DimmingRanges
    ELSE HbmRanges

\* dsi_backlight_hbm_dimming_start that, when dimming is active, only
\* refreshes dimming_frames_left
dsi_backlight_hbm_dimming_start_refreshes(d, num_frames, stop_cmd, crtc, get_ok) ==
    IF num_frames = 0 THEN d
    ELSE IF ~d.hbm.dimming_active /\ ~crtc THEN d
    ELSE IF ~d.hbm.dimming_active /\ ~get_ok THEN d
    ELSE IF d.hbm.dimming_active
    THEN [d EXCEPT !.hbm.dimming_frames_left = d.hbm.dimming_frames_total]
    ELSE [d EXCEPT !.refs = @ + 1,
                   !.hbm.dimming_frames_total = num_frames,
                   !.hbm.dimming_frames_left = num_frames,
                   !.hbm.dimming_stop_cmd = stop_cmd,
                   !.hbm.dimming_active = TRUE]

\* picks the last range that fits and range 0 when none does
dsi_backlight_hbm_find_range_lenient(ranges, brightness) ==
    LET hit == { i \in 1..Len(ranges) : brightness <= ranges[i].user_bri_end }
    IN  IF hit = {} THEN 0
        ELSE (CHOOSE i \in hit : \A j \in hit : i >= j) - 1

\* dsi_backlight_hbm_find_range: index (from 0) of the first range with
\* brightness <= user_bri_end, or EINVAL
dsi_backlight_hbm_find_range(ranges, brightness) ==
    LET hit == { i \in 1..Len(ranges) : brightness <= ranges[i].user_bri_end }
    IN  IF hit = {} THEN EINVAL
        ELSE (CHOOSE i \in hit : \A j \in hit : i <= j) - 1

\* dsi_backlight_hbm_dimming_start; stop_cmd names the command set (range+1)
dsi_backlight_hbm_dimming_start(d, num_frames, stop_cmd, crtc, get_ok) ==
    IF num_frames = 0 THEN d
    ELSE IF ~d.hbm.dimming_active /\ ~crtc THEN d
    ELSE IF ~d.hbm.dimming_active /\ ~get_ok THEN d
    ELSE [d EXCEPT !.refs = IF d.hbm.dimming_active THEN @ ELSE @ + 1,
                   !.hbm.dimming_frames_total = num_frames,
                   !.hbm.dimming_frames_left = num_frames,
                   !.hbm.dimming_stop_cmd = stop_cmd,
                   !.hbm.dimming_active = TRUE]

\* dsi_backlight_hbm_dimming_stop
dsi_backlight_hbm_dimming_stop(d, crtc) ==
    IF ~d.hbm.dimming_active THEN d
    ELSE [d EXCEPT !.refs = IF crtc THEN @ - 1 ELSE @,
                   !.hbm.dimming_frames_total = 0,
                   !.hbm.dimming_frames_left = 0,
                   !.hbm.dimming_active = FALSE,
                   !.hbm.dimming_stop_cmd = NULLP,
                   !.cmds = IF d.hbm.dimming_stop_cmd # NULLP
                            THEN Append(@, <<"dimming_stop", d.hbm.dimming_stop_cmd>>)
                            ELSE @]

\* dsi_backlight_hbm_dimming_restart
dsi_backlight_hbm_dimming_restart(h) ==
    IF ~h.dimming_active THEN h
    ELSE [h EXCEPT !.dimming_frames_left = h.dimming_frames_total]

\* dsi_backlight_calculate_hbm on dimming state d: [bl_lvl, d].
\* e.entry_ok: the entry command transfer succeeds; e.get_ok: drm_crtc_vblank_get
\* succeeds.  panel->funcs has no update_hbm hook, so the entry command is sent
\* with dsi_panel_cmd_set_transfer.
dsi_backlight_calculate_hbm(c, d, dimmer, actual, crtc, brightness, e) ==
    LET ranges == Ranges(c)
        found == IF brightness # 0
                 THEN dsi_backlight_hbm_find_range(ranges, brightness)
                 ELSE 0
    IN  IF found = EINVAL THEN [bl_lvl |-> actual, d |-> d]
        ELSE
        LET target_range == found
            range == ranges[target_range + 1]
            started == dsi_backlight_hbm_dimming_start(
                           d, range.num_dimming_frames, target_range + 1,
                           crtc, e.get_ok)
            entered == [started EXCEPT
                           !.hbm.cur_range = target_range,
                           !.cmds = Append(@, <<IF e.entry_ok THEN "hbm_entry"
                                                ELSE "hbm_entry_failed",
                                                target_range>>)]
            d2 == IF d.hbm.cur_range # target_range THEN entered ELSE d
            l == dsi_backlight_lerp(
                     range.user_bri_start, range.user_bri_end,
                     IF dimmer /\ target_range = 0 THEN backlight_min
                     ELSE range.panel_bri_start,
                     range.panel_bri_end, brightness)
        IN  IF d.hbm.cur_range # target_range /\ ~e.entry_ok
            THEN [bl_lvl |-> actual, d |-> d2]
            ELSE [bl_lvl |-> IF l.rc # 0 THEN 0 ELSE l.y, d |-> d2]

\* dsi_backlight_calculate that maps brightness 0 like any other brightness
dsi_backlight_calculate_maps_zero(c, d, dimmer, actual, crtc, scale, scale_sv, mode, brightness, e) ==
    IF brightness < 0 THEN [bl_lvl |-> 0, d |-> d]
    ELSE LET bl_temp == mult_frac(mult_frac(brightness, scale, MAX_BL_SCALE_LEVEL),
                                  scale_sv, MAX_SV_BL_SCALE_LEVEL)
         IN  IF mode # HBM_MODE_OFF
             THEN dsi_backlight_calculate_hbm(c, d, dimmer, actual, crtc, bl_temp, e)
             ELSE [bl_lvl |-> dsi_backlight_calculate_normal(c, dimmer, bl_temp),
                   d |-> d]

\* dsi_backlight_calculate: [bl_lvl, d]
dsi_backlight_calculate(c, d, dimmer, actual, crtc, scale, scale_sv, mode, brightness, e) ==
    IF brightness <= 0 THEN [bl_lvl |-> 0, d |-> d]
    ELSE LET bl_temp == mult_frac(mult_frac(brightness, scale, MAX_BL_SCALE_LEVEL),
                                  scale_sv, MAX_SV_BL_SCALE_LEVEL)
         IN  IF mode # HBM_MODE_OFF
             THEN dsi_backlight_calculate_hbm(c, d, dimmer, actual, crtc, bl_temp, e)
             ELSE [bl_lvl |-> dsi_backlight_calculate_normal(c, dimmer, bl_temp),
                   d |-> d]

(***************************************************************************)
(* Writers (bl->update_bl).  A writer state w is                            *)
(* [rc, bl_actual, last_lp_mode, cmds].                                    *)
(***************************************************************************)
\* bl_lvl > 0xffff on a u32 (BL_ACTUAL_INVALID is 0xFFFFFFFF)
AboveU16(bl_lvl) == bl_lvl < 0 \/ bl_lvl >= U16_LIMIT

EIO == -5

\* dsi_backlight_update_dcs
dsi_backlight_update_dcs(w, bl_lvl, wr_ok) ==
    IF AboveU16(bl_lvl) THEN [w EXCEPT !.rc = EINVAL]
    ELSE IF bl_lvl = w.bl_actual THEN [w EXCEPT !.rc = 0]
    ELSE [w EXCEPT !.rc = IF wr_ok THEN 0 ELSE EIO,
                   !.cmds = Append(@, <<IF wr_ok THEN "set_display_brightness"
                                        ELSE "set_display_brightness_failed",
                                        bl_lvl>>)]

\* A u32 is kept as the int with the same 32 bits: UINT_MAX, the threshold of
\* a bin without google,dsi-lp-brightness-threshold, is -1.
UINT_MAX == -1

\* a <= b on two u32
U32Le(a, b) == IF (a < 0) = (b < 0) THEN a <= b ELSE b < 0

\* _dsi_panel_binned_bl_cmp: the u32 difference of the thresholds returned as
\* an int (the same 32 bits, so the int difference of the two stand-ins)
dsi_panel_binned_bl_cmp(a, b) == a - b

\* list_sort(NULL, &lp_data->mode_list, _dsi_panel_binned_bl_cmp): a stable
\* sort that keeps a before b when cmp(a, b) <= 0
RECURSIVE list_sort(_)
list_sort(list) ==
    IF Len(list) <= 1 THEN list
    ELSE LET rest == list_sort(Tail(list))
             a == Head(list)
             before == { k \in 0..Len(rest) :
                           \A i \in 1..k :
                               dsi_panel_binned_bl_cmp(a, rest[i]) > 0 }
             k == CHOOSE x \in before : \A y \in before : y <= x
         IN  SubSeq(rest, 1, k) \o << a >> \o SubSeq(rest, k + 1, Len(rest))

\* dsi_panel_binned_lp_register: the mode_list built from the children of
\* google,lp-modes in device-tree order, then sorted
dsi_panel_binned_lp_register(dt_thresholds) == list_sort(dt_thresholds)

\* the first node of mode_list with props->brightness <= bl_threshold (0: none)
FirstLpNode(thresholds, brightness) ==
    LET hit == { i \in 1..Len(thresholds) : U32Le(brightness, thresholds[i]) }
    IN  IF hit = {} THEN NULLP ELSE CHOOSE i \in hit : \A j \in hit : i <= j

is_lp_mode(state) == state \cap {LP, LP2} # {}

\* dsi_panel_binned_bl_update without "ensure update after lpm"
dsi_panel_binned_bl_update_keeps_actual(c, w, state, brightness, bl_lvl, wr_ok) ==
    LET node == IF is_lp_mode(state) THEN FirstLpNode(c.thresholds, brightness)
                ELSE NULLP
        w2 == IF node = w.last_lp_mode THEN w
              ELSE IF node # NULLP
              THEN [w EXCEPT !.last_lp_mode = node,
                             !.cmds = Append(@, <<"lp_mode", node>>)]
              ELSE [w EXCEPT !.last_lp_mode = node]
    IN  IF node # NULLP THEN [w2 EXCEPT !.rc = 0]
        ELSE dsi_backlight_update_dcs(w2, bl_lvl, wr_ok)

\* dsi_panel_binned_bl_update
dsi_panel_binned_bl_update(c, w, state, brightness, bl_lvl, wr_ok) ==
    LET node == IF is_lp_mode(state) THEN FirstLpNode(c.thresholds, brightness)
                ELSE NULLP
        w2 == IF node = w.last_lp_mode THEN w
              ELSE IF node # NULLP
              THEN [w EXCEPT !.last_lp_mode = node,
                             !.cmds = Append(@, <<"lp_mode", node>>)]
              ELSE [w EXCEPT !.last_lp_mode = node,
                             !.bl_actual = BL_ACTUAL_INVALID]
    IN  IF node # NULLP THEN [w2 EXCEPT !.rc = 0]
        ELSE dsi_backlight_update_dcs(w2, bl_lvl, wr_ok)

\* bl->update_bl(bl, bl_lvl)
update_bl(c, w, state, brightness, bl_lvl, wr_ok) ==
    IF c.update_bl = "binned"
    THEN dsi_panel_binned_bl_update(c, w, state, brightness, bl_lvl, wr_ok)
    ELSE dsi_backlight_update_dcs(w, bl_lvl, wr_ok)

(***************************************************************************)
(* dsi_backlight_update_status, with bd->props = (state, power, b), the     *)
(* static backlight_dimmer and the                                         *)
(* outcomes e of the transfers it makes.  The result holds the fields the   *)
(* call leaves behind and what it did:                                      *)
(*   path  "noop" (level and state unchanged), "gated" (!allow_bl_update),  *)
(*         "failed" (the writer returned an error), "written" (the writer   *)
(*         returned 0), "unwritten" (panel not initialized: no writer call) *)
(*   cmds  the command sets it sent to the panel, in order                  *)
(*   notify  the DRM_EVENT_SYS_BACKLIGHT event was emitted                   *)
(***************************************************************************)
Env(c) ==
    [entry_ok : IF c.has_hbm THEN BOOLEAN ELSE {TRUE},
     wr_ok : IF c.has_hbm THEN {TRUE} ELSE BOOLEAN,
     get_ok : IF ~c.has_hbm THEN {TRUE}
              ELSE IF vblank_refs < MaxRefs THEN BOOLEAN ELSE {FALSE}]

EffectiveBrightness(state, power, b) ==
    IF (state \cap {FBBLANK, SUSPENDED} # {}) \/ (power # FB_BLANK_UNBLANK)
    THEN 0 ELSE b

\* never skips: every call is treated as a change of level or state
AlwaysChanged(bl_lvl, actual, last, state) == FALSE

\* the test that ends update_status early: level and state are both unchanged
LevelAndStateUnchanged(bl_lvl, actual, last, state) ==
    bl_lvl = actual /\ last = state

\* the tail of update_status with a final level taken from the writer's own
\* bookkeeping instead of the computed level
update_status_tail_keeps_writer_level(base, w, bl_lvl, state, brightness) ==
    IF ~panel_initialized
    THEN [base EXCEPT !.bl_actual = bl_lvl, !.last_state = state,
                      !.path = "unwritten"]
    ELSE IF w.rc # 0
    THEN [base EXCEPT !.bl_actual = w.bl_actual,
                      !.last_lp_mode = w.last_lp_mode, !.rc = w.rc,
                      !.cmds = w.cmds, !.path = "failed"]
    ELSE [base EXCEPT !.bl_actual = w.bl_actual, !.last_state = state,
                      !.bl_update_pending = FALSE,
                      !.last_lp_mode = w.last_lp_mode, !.cmds = w.cmds,
                      !.path = "written", !.notify = (brightness # 0)]

\* the tail of update_status storing the level and the state although the
\* writer failed
update_status_tail_stores_on_failure(base, w, bl_lvl, state, brightness) ==
    IF ~panel_initialized
    THEN [base EXCEPT !.bl_actual = bl_lvl, !.last_state = state,
                      !.path = "unwritten"]
    ELSE IF w.rc # 0
    THEN [base EXCEPT !.bl_actual = bl_lvl, !.last_state = state,
                      !.last_lp_mode = w.last_lp_mode, !.rc = w.rc,
                      !.cmds = w.cmds, !.path = "failed"]
    ELSE [base EXCEPT !.bl_actual = bl_lvl, !.last_state = state,
                      !.bl_update_pending = FALSE,
                      !.last_lp_mode = w.last_lp_mode, !.cmds = w.cmds,
                      !.path = "written", !.notify = (brightness # 0)]

\* the tail of update_status once the call is neither a no-op nor gated: the
\* writer's result w is used only when the panel is initialized
update_status_tail(base, w, bl_lvl, state, brightness) ==
    IF ~panel_initialized
    THEN [base EXCEPT !.bl_actual = bl_lvl, !.last_state = state,
                      !.path = "unwritten"]
    ELSE IF w.rc # 0
    THEN [base EXCEPT !.bl_actual = w.bl_actual,
                      !.last_lp_mode = w.last_lp_mode, !.rc = w.rc,
                      !.cmds = w.cmds, !.path = "failed"]
    ELSE [base EXCEPT !.bl_actual = bl_lvl, !.last_state = state,
                      !.bl_update_pending = FALSE,
                      !.last_lp_mode = w.last_lp_mode, !.cmds = w.cmds,
                      !.path = "written", !.notify = (brightness # 0)]

\* the gated exit of update_status without the note that an update is owed
update_status_gated_drops_pending(base) == [base EXCEPT !.path = "gated"]

\* the exit of update_status taken when !bl->allow_bl_update
update_status_gated(base) ==
    [base EXCEPT !.bl_update_pending = TRUE, !.path = "gated"]

dsi_backlight_update_status(dimmer, state, power, b, e) ==
    LET brightness == EffectiveBrightness(state, power, b)
        d0 == [hbm |-> hbm, refs |-> vblank_refs, cmds |-> << >>]
        calc == dsi_backlight_calculate(cfg, d0, dimmer, bl_actual,
                                        crtc_attached, bl_scale, bl_scale_sv,
                                        hbm_mode, brightness, e)
        bl_lvl == calc.bl_lvl
        d == calc.d
        base == [bl_actual |-> bl_actual, last_state |-> last_state,
                 bl_update_pending |-> bl_update_pending, hbm |-> d.hbm,
                 refs |-> d.refs, last_lp_mode |-> last_lp_mode, rc |-> 0,
                 path |-> "noop", cmds |-> d.cmds, notify |-> FALSE,
                 bl_lvl |-> bl_lvl, brightness |-> brightness]
        restarted == dsi_backlight_hbm_dimming_restart(d.hbm)
        w == update_bl(cfg, [rc |-> 0, bl_actual |-> bl_actual,
                             last_lp_mode |-> last_lp_mode, cmds |-> d.cmds],
                       state, b, bl_lvl, e.wr_ok)
    IN  IF LevelAndStateUnchanged(bl_lvl, bl_actual, last_state, state) THEN base
        ELSE IF ~allow_bl_update
        THEN update_status_gated(base)
        ELSE update_status_tail([base EXCEPT !.hbm = restarted], w, bl_lvl,
                                state, brightness)

(***************************************************************************)
(* DPMS state machine.                                                     *)
(***************************************************************************)
\* get_state_after_dpms with an LP1 case that forgets to clear LP2
get_state_after_dpms_lp1_keeps_lp2(state, power_mode) ==
    CASE power_mode = SDE_MODE_DPMS_ON  -> state \ {FBBLANK, LP, LP2}
      [] power_mode = SDE_MODE_DPMS_OFF -> (state \ {LP, LP2}) \cup {FBBLANK}
      [] power_mode = SDE_MODE_DPMS_LP1 -> state \cup {LP}
      [] power_mode = SDE_MODE_DPMS_LP2 -> state \cup {LP, LP2}
      [] OTHER -> state

\* get_state_after_dpms with an ON case that leaves FBBLANK
get_state_after_dpms_on_keeps_fbblank(state, power_mode) ==
    CASE power_mode = SDE_MODE_DPMS_ON  -> state \ {LP, LP2}
      [] power_mode = SDE_MODE_DPMS_OFF -> (state \ {LP, LP2}) \cup {FBBLANK}
      [] power_mode = SDE_MODE_DPMS_LP1 -> (state \cup {LP}) \ {LP2}
      [] power_mode = SDE_MODE_DPMS_LP2 -> state \cup {LP, LP2}
      [] OTHER -> state

\* get_state_after_dpms
get_state_after_dpms(state, power_mode) ==
    CASE power_mode = SDE_MODE_DPMS_ON  -> state \ {FBBLANK, LP, LP2}
      [] power_mode = SDE_MODE_DPMS_OFF -> (state \ {LP, LP2}) \cup {FBBLANK}
      [] power_mode = SDE_MODE_DPMS_LP1 -> (state \cup {LP}) \ {LP2}
      [] power_mode = SDE_MODE_DPMS_LP2 -> state \cup {LP, LP2}
      [] OTHER -> state

\* is_standby_mode (dsi_panel.h)
is_standby_mode(state) == FBBLANK \in state

\* regulator_mode_from_state
regulator_mode_from_state(state) ==
    IF is_standby_mode(state) THEN REGULATOR_MODE_STANDBY
    ELSE IF is_lp_mode(state) THEN REGULATOR_MODE_IDLE
    ELSE REGULATOR_MODE_NORMAL

\* dsi_backlight_update_regulator: the mode of lab_vreg afterwards
dsi_backlight_update_regulator(state) ==
    IF regulator_mode_from_state(last_state) # regulator_mode_from_state(state)
    THEN regulator_mode_from_state(state)
    ELSE regulator_mode

(***************************************************************************)
(* Observation of a handler: out describes the handler that ran last,       *)
(* prev_call the update_status call that ran last with nothing after it.    *)
(***************************************************************************)
NoOut(op) ==
    [op |-> op, arg |-> "", prev_dpms |-> "", before |-> {}, rep |-> FALSE,
     first_writes |-> 0, rc |-> 0, path |-> "none", cmds |-> << >>,
     notify |-> FALSE, bl_lvl |-> 0, brightness |-> 0]

NoCall == [valid |-> FALSE, b |-> 0, clean |-> FALSE, writes |-> 0]

IsBlWrite(cmd) ==
    cmd[1] \in {"set_display_brightness", "set_display_brightness_failed"}

IsFailed(cmd) ==
    cmd[1] \in {"set_display_brightness_failed", "hbm_entry_failed"}

BlWrites(cmds) == Cardinality({ i \in 1..Len(cmds) : IsBlWrite(cmds[i]) })

Clean(u) == u.rc = 0 /\ \A i \in 1..Len(u.cmds) : ~IsFailed(u.cmds[i])

\* the fields a call of update_status leaves behind
ApplyUpdate(op, arg, b, u) ==
    /\ bl_actual' = u.bl_actual
    /\ last_state' = u.last_state
    /\ bl_update_pending' = u.bl_update_pending
    /\ hbm' = u.hbm
    /\ vblank_refs' = u.refs
    /\ last_lp_mode' = u.last_lp_mode
    /\ first_brightness_set' =
           (first_brightness_set \/ (cfg.uci /\ u.path \in {"written", "unwritten"}))
    /\ out' = [op |-> op, arg |-> arg,
               prev_dpms |-> IF op = "late_dpms" THEN last_dpms ELSE "",
               before |-> IF op = "late_dpms" THEN props_state ELSE {},
               rep |-> /\ prev_call.valid
                       /\ prev_call.b = b
                       /\ op = "update_status"
                       /\ allow_bl_update
                       /\ panel_initialized,
               first_writes |-> IF prev_call.valid /\ prev_call.b = b
                                   /\ op = "update_status" /\ allow_bl_update
                                   /\ panel_initialized
                                THEN prev_call.writes ELSE 0,
               rc |-> u.rc, path |-> u.path, cmds |-> u.cmds,
               notify |-> u.notify, bl_lvl |-> u.bl_lvl,
               brightness |-> u.brightness]
    /\ prev_call' = [valid |-> TRUE, b |-> b, clean |-> Clean(u),
                     writes |-> BlWrites(u.cmds)]

(***************************************************************************)
(* Handlers.                                                               *)
(***************************************************************************)
NoOwner == "none"

Threads == {"backlight", "dpms", "attr", "kworker", "dimming", "commit", "panel"}

LkInit ==
    /\ panel_lock = NoOwner
    /\ state_lock = NoOwner
    /\ pc = [t \in Threads |-> "idle"]
    /\ switch_work = "idle"
    /\ gamma_work = "idle"
    /\ display_mode = 0
    /\ cur_mode = 1
    /\ switch_pending = FALSE
    /\ te = [listening |-> FALSE, left |-> 0, rc |-> 0]
    /\ gamma_ready = FALSE
    /\ burst = NoOwner
    /\ last_write = [by |-> NoOwner, locked |-> TRUE, alone |-> TRUE]
    /\ lock_order_ok = TRUE

\* the refresh rates of the s6e3hc2 panel's two modes
DefaultModes == << 60, 90 >>

\* the refresh rates a mode of the panel's list may have
Rates == {60, 90, 120}

\* mode->priv_info->switch_data before s6e3hc2_gamma_alloc_mode_memory
NoBufs == << >>

NoPout == [op |-> "init", arg |-> 0, rc |-> 0, was_ready |-> FALSE,
           before |-> [r \in Rates |-> NoBufs],
           read |-> [r \in Rates |-> NoBufs]]

\* devm_kzalloc'ed struct hbm_range
NoRange ==
    [user_bri_start |-> 0, user_bri_end |-> 0, panel_bri_start |-> 0,
     panel_bri_end |-> 0, entry_cmd |-> 0, num_dimming_frames |-> 0,
     dimming_stop_cmd |-> 0]

\* bl->hbm == NULL
NoHbmData ==
    [present |-> FALSE, ranges |-> << >>, exit_cmd |-> 0,
     exit_num_dimming_frames |-> 0, exit_dimming_stop_cmd |-> 0]

\* a device tree without a google,hbm-ranges node
NoDt ==
    [present |-> FALSE, ranges |-> << >>, exit_cmd |-> 0,
     exit_num_dimming_frames |-> << >>, exit_dimming_stop_cmd |-> 0]

\* before dsi_panel_bl_parse_config ran
DtInit ==
    /\ hbm_dt = NoDt
    /\ bl_parse = [done |-> FALSE, hbm_parsed |-> FALSE, rc |-> 0,
                   hbm_rc |-> 0, hbm |-> NoHbmData]

NoLerp == [x1 |-> 0, x2 |-> 0, y1 |-> 0, y2 |-> 0, x |-> 0,
           returned |-> FALSE, rc |-> 0, y |-> 0]

\* hbm->irc_data == NULL, and no call of dsi_panel_bl_update_irc yet
NoIrcData == [cached |-> FALSE, bytes |-> << >>]
NoIrcOut == [called |-> FALSE, enable |-> FALSE, read |-> FALSE, read_rc |-> 0,
             rc |-> 0, cmds |-> << >>]
NoIrc == [addr |-> 0, bit_offset |-> 0, data |-> NoIrcData, out |-> NoIrcOut]

\* panel_switch_data_init on a panel in its first mode: no idle mode, no
\* TE listening, nothing requested
NoPdata ==
    [idle_mode |-> 0, switch_te_listen_count |-> 0,
     new_mode |-> [commit |-> 0, attr |-> 0],
     te_listen_cnt |-> 0, log |-> << >>,
     panel_mode |-> 1, unsent |-> 0, last_req |-> 1, phase |-> "none",
     wakeups |-> 0,
     idle_switch |-> [done |-> FALSE, wanted |-> FALSE, locked |-> FALSE],
     freed |-> FALSE, stopped |-> FALSE, uaf |-> FALSE]

AuxInit ==
    /\ after_allow = [fresh |-> FALSE, first_pending |-> FALSE]
    /\ dimming_work = "idle"
    /\ lerp_io = NoLerp
    /\ irc_io = NoIrc
    /\ pdata = NoPdata

GmInit(lists) ==
    /\ modes \in lists
    /\ gamma_data = [r \in Rates |-> NoBufs]
    /\ wire = << >>
    /\ pout = NoPout

BlInit(configs) ==
    /\ cfg \in configs
    /\ props_brightness = cfg.brightness_max_level \div 2
    /\ props_state = {}
    /\ props_power = FB_BLANK_UNBLANK
    /\ bl_actual = 0
    /\ last_state = {}
    /\ allow_bl_update = FALSE
    /\ bl_update_pending = FALSE
    /\ bl_scale = MAX_BL_SCALE_LEVEL
    /\ bl_scale_sv = MAX_SV_BL_SCALE_LEVEL
    /\ panel_initialized = FALSE
    /\ hbm_mode = HBM_MODE_OFF
    /\ hbm = [cur_range |-> HBM_RANGE_MAX, dimming_active |-> FALSE,
              dimming_frames_total |-> 0, dimming_frames_left |-> 0,
              dimming_stop_cmd |-> NULLP]
    /\ vblank_refs = 0
    /\ crtc_attached = TRUE
    /\ last_lp_mode = NULLP
    /\ regulator_mode = REGULATOR_MODE_NORMAL
    /\ backlight_dimmer = FALSE
    /\ first_brightness_set = FALSE
    /\ registered = TRUE
    /\ last_dpms = ""
    /\ out = NoOut("init")
    /\ prev_call = NoCall

Init == BlInit(Configs) /\ LkInit /\ GmInit({DefaultModes}) /\ DtInit /\ AuxInit

\* the backlight core stores props.brightness and calls update_status
UpdateStatus(b, e) ==
    /\ registered
    /\ props_brightness' = b
    /\ ApplyUpdate("update_status", "", b,
                   dsi_backlight_update_status(backlight_dimmer, props_state,
                                               props_power, b, e))
    /\ UNCHANGED << cfg, props_state, props_power, allow_bl_update, bl_scale,
                    bl_scale_sv, panel_initialized, hbm_mode, crtc_attached,
                    regulator_mode, backlight_dimmer, registered, last_dpms >>

\* dsi_backlight_early_dpms
EarlyDpms(power_mode) ==
    /\ registered
    /\ regulator_mode' =
           IF is_lp_mode(get_state_after_dpms(props_state, power_mode))
           THEN dsi_backlight_update_regulator(
                    get_state_after_dpms(props_state, power_mode))
           ELSE regulator_mode
    /\ out' = [NoOut("early_dpms") EXCEPT !.arg = power_mode]
    /\ prev_call' = NoCall
    /\ UNCHANGED << cfg, props_brightness, props_state, props_power, bl_actual,
                    last_state, allow_bl_update, bl_update_pending, bl_scale,
                    bl_scale_sv, panel_initialized, hbm_mode, hbm, vblank_refs,
                    crtc_attached, last_lp_mode, backlight_dimmer,
                    first_brightness_set, registered, last_dpms >>

\* dsi_backlight_late_dpms, including its backlight_update_status call
LateDpms(power_mode, e) ==
    LET state == get_state_after_dpms(props_state, power_mode)
        power == IF FBBLANK \in state THEN FB_BLANK_POWERDOWN
                 ELSE FB_BLANK_UNBLANK
    IN  /\ registered
        /\ regulator_mode' = IF ~is_lp_mode(state)
                             THEN dsi_backlight_update_regulator(state)
                             ELSE regulator_mode
        /\ props_power' = power
        /\ props_state' = state
        /\ last_dpms' = power_mode
        /\ ApplyUpdate("late_dpms", power_mode, props_brightness,
               dsi_backlight_update_status(backlight_dimmer, state, power,
                                           props_brightness, e))
        /\ UNCHANGED << cfg, props_brightness, allow_bl_update, bl_scale,
                        bl_scale_sv, panel_initialized, hbm_mode, crtc_attached,
                        backlight_dimmer, registered >>

\* uci_user_listener: stores backlight_dimmer and, on a change after the first
\* brightness was set, calls update_status unless the display is blanked
UciUserListener(on, e) ==
    /\ registered
    /\ cfg.uci
    /\ backlight_dimmer' = on
    /\ IF first_brightness_set /\ on # backlight_dimmer /\ FBBLANK \notin props_state
       THEN ApplyUpdate("uci_user_listener", "", props_brightness,
                dsi_backlight_update_status(on, props_state, props_power,
                                            props_brightness, e))
       ELSE /\ out' = NoOut("uci_user_listener")
            /\ prev_call' = NoCall
            /\ UNCHANGED << bl_actual, last_state, bl_update_pending, hbm,
                            vblank_refs, last_lp_mode, first_brightness_set >>
    /\ UNCHANGED << cfg, props_brightness, props_state, props_power,
                    allow_bl_update, bl_scale, bl_scale_sv, panel_initialized,
                    hbm_mode, crtc_attached, regulator_mode, registered,
                    last_dpms >>

\* one iteration of the loop of dsi_backlight_hbm_dimming_work that acquired
\* panel_lock; wait_ok: dsi_backlight_hbm_wait_frame returned 0
DimmingWork(wait_ok) ==
    LET left == IF ~wait_ok THEN 0
                ELSE IF hbm.dimming_frames_left > 0
                THEN hbm.dimming_frames_left - 1
                ELSE hbm.dimming_frames_left
        d0 == [hbm |-> [hbm EXCEPT !.dimming_frames_left = left],
               refs |-> vblank_refs, cmds |-> << >>]
        d == IF left = 0 THEN dsi_backlight_hbm_dimming_stop(d0, crtc_attached)
             ELSE d0
    IN  /\ registered
        /\ hbm.dimming_active
        /\ hbm' = d.hbm
        /\ vblank_refs' = d.refs
        /\ out' = [NoOut("dimming_work") EXCEPT
                       !.arg = IF wait_ok THEN "vblank" ELSE "wait_failed",
                       !.cmds = d.cmds]
        /\ prev_call' = NoCall
        /\ UNCHANGED << cfg, props_brightness, props_state, props_power,
                        bl_actual, last_state, allow_bl_update,
                        bl_update_pending, bl_scale, bl_scale_sv,
                        panel_initialized, hbm_mode, crtc_attached,
                        last_lp_mode, regulator_mode, backlight_dimmer,
                        first_brightness_set, registered, last_dpms >>

\* dsi_panel_bl_unregister: dsi_panel_bl_hbm_free stops dimming and frees the
\* HBM data.  The device is gone afterwards: its fields are parked at the
\* values they had after construction, the dimming controller and the CRTC's
\* reference count stay as dimming_stop left them.
Unregister ==
    LET d0 == [hbm |-> hbm, refs |-> vblank_refs, cmds |-> << >>]
        d == IF cfg.has_hbm THEN dsi_backlight_hbm_dimming_stop(d0, crtc_attached)
             ELSE d0
    IN  /\ registered
        /\ registered' = FALSE
        /\ hbm' = [d.hbm EXCEPT !.cur_range = HBM_RANGE_MAX]
        /\ vblank_refs' = d.refs
        /\ out' = [NoOut("unregister") EXCEPT !.cmds = d.cmds]
        /\ prev_call' = NoCall
        /\ props_brightness' = cfg.brightness_max_level \div 2
        /\ props_state' = {}
        /\ props_power' = FB_BLANK_UNBLANK
        /\ bl_actual' = 0
        /\ last_state' = {}
        /\ allow_bl_update' = FALSE
        /\ bl_update_pending' = FALSE
        /\ bl_scale' = MAX_BL_SCALE_LEVEL
        /\ panel_initialized' = FALSE
        /\ hbm_mode' = HBM_MODE_OFF
        /\ last_lp_mode' = NULLP
        /\ regulator_mode' = REGULATOR_MODE_NORMAL
        /\ backlight_dimmer' = FALSE
        /\ first_brightness_set' = FALSE
        /\ last_dpms' = ""
        /\ UNCHANGED << cfg, bl_scale_sv, crtc_attached >>

(***************************************************************************)
(* Fields of the backlight written by the rest of the display driver.      *)
(***************************************************************************)
EnvOut ==
    /\ registered
    /\ out' = NoOut("env")
    /\ prev_call' = NoCall

\* bl->allow_bl_update
SetAllowBlUpdate(v) ==
    /\ EnvOut
    /\ v # allow_bl_update
    /\ allow_bl_update' = v
    /\ UNCHANGED << cfg, props_brightness, props_state, props_power, bl_actual,
                    last_state, bl_update_pending, bl_scale, bl_scale_sv,
                    panel_initialized, hbm_mode, hbm, vblank_refs,
                    crtc_attached, last_lp_mode, regulator_mode,
                    backlight_dimmer, first_brightness_set, registered, last_dpms >>

\* panel->panel_initialized, read by dsi_panel_initialized
SetPanelInitialized(v) ==
    /\ EnvOut
    /\ v # panel_initialized
    /\ panel_initialized' = v
    /\ UNCHANGED << cfg, props_brightness, props_state, props_power, bl_actual,
                    last_state, allow_bl_update, bl_update_pending, bl_scale,
                    bl_scale_sv, hbm_mode, hbm, vblank_refs, crtc_attached,
                    last_lp_mode, regulator_mode, backlight_dimmer,
                    first_brightness_set, registered, last_dpms >>

\* bl->bl_scale
SetBlScale(v) ==
    /\ EnvOut
    /\ v # bl_scale
    /\ bl_scale' = v
    /\ UNCHANGED << cfg, props_brightness, props_state, props_power, bl_actual,
                    last_state, allow_bl_update, bl_update_pending,
                    bl_scale_sv, panel_initialized, hbm_mode, hbm, vblank_refs,
                    crtc_attached, last_lp_mode, regulator_mode,
                    backlight_dimmer, first_brightness_set, registered, last_dpms >>

\* panel->hbm_mode: leaving HBM forgets the current range
SetHbmMode(m) ==
    /\ EnvOut
    /\ m # hbm_mode
    /\ cfg.has_hbm
    /\ hbm_mode' = m
    /\ hbm' = IF m = HBM_MODE_OFF THEN [hbm EXCEPT !.cur_range = HBM_RANGE_MAX]
              ELSE hbm
    /\ UNCHANGED << cfg, props_brightness, props_state, props_power, bl_actual,
                    last_state, allow_bl_update, bl_update_pending, bl_scale,
                    bl_scale_sv, panel_initialized, vblank_refs, crtc_attached,
                    last_lp_mode, regulator_mode, backlight_dimmer,
                    first_brightness_set, registered, last_dpms >>

\* display->bridge->base.encoder->crtc, read by the HBM dimming controller
SetCrtc(v) ==
    /\ EnvOut
    /\ cfg.has_hbm
    /\ v # crtc_attached
    /\ crtc_attached' = v
    /\ UNCHANGED << cfg, props_brightness, props_state, props_power, bl_actual,
                    last_state, allow_bl_update, bl_update_pending, bl_scale,
                    bl_scale_sv, panel_initialized, hbm_mode, hbm, vblank_refs,
                    last_lp_mode, regulator_mode, backlight_dimmer,
                    first_brightness_set, registered, last_dpms >>

\* the backlight handlers, each run as one step
Next ==
    \/ \E b \in 0..MaxBri, e \in Env(cfg) :
           UpdateStatus(b, e) /\ UNCHANGED << lkvars, sidevars >>
    \/ \E m \in cfg.dpms :
           EarlyDpms(m) /\ UNCHANGED << lkvars, sidevars >>
    \/ \E m \in cfg.dpms, e \in Env(cfg) :
           LateDpms(m, e) /\ UNCHANGED << lkvars, sidevars >>
    \/ \E on \in BOOLEAN, e \in Env(cfg) :
           UciUserListener(on, e) /\ UNCHANGED << lkvars, sidevars >>
    \/ \E wait_ok \in BOOLEAN :
           DimmingWork(wait_ok) /\ UNCHANGED << lkvars, sidevars >>
    \/ Unregister /\ UNCHANGED << lkvars, sidevars >>
    \/ \E v \in cfg.gates :
           SetAllowBlUpdate(v) /\ UNCHANGED << lkvars, sidevars >>
    \/ \E v \in cfg.gates :
           SetPanelInitialized(v) /\ UNCHANGED << lkvars, sidevars >>
    \/ \E v \in cfg.scales :
           SetBlScale(v) /\ UNCHANGED << lkvars, sidevars >>
    \/ \E m \in {HBM_MODE_OFF, HBM_MODE_ON} :
           SetHbmMode(m) /\ UNCHANGED << lkvars, sidevars >>
    \/ \E v \in BOOLEAN :
           SetCrtc(v) /\ UNCHANGED << lkvars, sidevars >>

Spec == Init /\ [][Next]_vars

(***************************************************************************)
(* The HBM panel with callers that set bl_scale beyond MAX_BL_SCALE_LEVEL:  *)
(* the scaled brightness then exceeds the last range.                       *)
(***************************************************************************)
OverScaledConfigs ==
    { [BaseCfg EXCEPT !.name = "dcs-hbm-overscaled", !.has_hbm = TRUE,
                      !.dpms = OnOff,
                      !.scales = {MAX_BL_SCALE_LEVEL, 2 * MAX_BL_SCALE_LEVEL}] }

RangeNext ==
    \/ \E b \in 0..MaxBri, e \in Env(cfg) :
           UpdateStatus(b, e) /\ UNCHANGED << lkvars, sidevars >>
    \/ \E m \in cfg.dpms, e \in Env(cfg) :
           LateDpms(m, e) /\ UNCHANGED << lkvars, sidevars >>
    \/ \E wait_ok \in BOOLEAN :
           DimmingWork(wait_ok) /\ UNCHANGED << lkvars, sidevars >>
    \/ \E v \in cfg.gates :
           SetAllowBlUpdate(v) /\ UNCHANGED << lkvars, sidevars >>
    \/ \E v \in cfg.gates :
           SetPanelInitialized(v) /\ UNCHANGED << lkvars, sidevars >>
    \/ \E v \in cfg.scales :
           SetBlScale(v) /\ UNCHANGED << lkvars, sidevars >>
    \/ \E m \in {HBM_MODE_OFF, HBM_MODE_ON} :
           SetHbmMode(m) /\ UNCHANGED << lkvars, sidevars >>

InitRange == BlInit(OverScaledConfigs) /\ LkInit /\ GmInit({DefaultModes}) /\ DtInit /\ AuxInit

SpecRange == InitRange /\ [][RangeNext]_vars

(***************************************************************************)
(* The panels whose allow_bl_update and panel_initialized go both ways,     *)
(* with a note of which update_status is the first after updates were       *)
(* allowed.                                                                 *)
(***************************************************************************)
GateConfigs == { c \in Configs : c.gates = BOOLEAN }

\* update_status ran: it is no longer the first call after the gate opened
NoteUpdate ==
    after_allow' = [fresh |-> FALSE,
                    first_pending |-> after_allow.fresh /\ bl_update_pending]

GateNext ==
    \/ \E b \in 0..MaxBri, e \in Env(cfg) :
           UpdateStatus(b, e) /\ NoteUpdate
               /\ UNCHANGED << lkvars, gmvars, dtvars, dimming_work, lerp_io, irc_io, pdata >>
    \/ \E m \in cfg.dpms, e \in Env(cfg) :
           LateDpms(m, e) /\ NoteUpdate
               /\ UNCHANGED << lkvars, gmvars, dtvars, dimming_work, lerp_io, irc_io, pdata >>
    \/ \E v \in cfg.gates :
           SetAllowBlUpdate(v)
               /\ after_allow' = [fresh |-> v, first_pending |-> FALSE]
               /\ UNCHANGED << lkvars, gmvars, dtvars, dimming_work, lerp_io, irc_io, pdata >>
    \/ \E v \in cfg.gates :
           SetPanelInitialized(v)
               /\ after_allow' = [after_allow EXCEPT !.first_pending = FALSE]
               /\ UNCHANGED << lkvars, gmvars, dtvars, dimming_work, lerp_io, irc_io, pdata >>

InitGate == BlInit(GateConfigs) /\ LkInit /\ GmInit({DefaultModes}) /\ DtInit /\ AuxInit

SpecGate == InitGate /\ [][GateNext]_vars

(***************************************************************************)
(* HBM panels that change range while they dim: the panel of Configs whose  *)
(* first range does not dim, and one whose two ranges both dim.            *)
(***************************************************************************)
DimmingConfigs ==
    { c \in Configs : c.has_hbm } \cup
    { [BaseCfg EXCEPT !.name = "dcs-hbm-dimming", !.has_hbm = TRUE,
                      !.dpms = OnOff] }

DimmingNext ==
    \/ \E b \in 0..MaxBri, e \in Env(cfg) :
           UpdateStatus(b, e) /\ UNCHANGED << lkvars, sidevars >>
    \/ \E wait_ok \in BOOLEAN :
           DimmingWork(wait_ok) /\ UNCHANGED << lkvars, sidevars >>
    \/ \E v \in cfg.gates :
           SetAllowBlUpdate(v) /\ UNCHANGED << lkvars, sidevars >>
    \/ \E v \in cfg.gates :
           SetPanelInitialized(v) /\ UNCHANGED << lkvars, sidevars >>
    \/ \E m \in {HBM_MODE_OFF, HBM_MODE_ON} :
           SetHbmMode(m) /\ UNCHANGED << lkvars, sidevars >>

InitDimming == BlInit(DimmingConfigs) /\ LkInit /\ GmInit({DefaultModes}) /\ DtInit /\ AuxInit

SpecDimming == InitDimming /\ [][DimmingNext]_vars

(***************************************************************************)
(* Binned-LP panels registered from device trees whose bins are listed in   *)
(* any order and whose last bin may have no threshold.                      *)
(***************************************************************************)
LpDtThresholds == { <<1, 2>>, <<2, 1>>, <<1, UINT_MAX>>, <<UINT_MAX, 2>> }

BinnedConfigs ==
    { [BaseCfg EXCEPT !.name = "binned-lp-dt", !.update_bl = "binned",
                      !.thresholds = dsi_panel_binned_lp_register(dt)] :
          dt \in LpDtThresholds }

BinnedNext ==
    \/ \E b \in 0..MaxBri, e \in Env(cfg) :
           UpdateStatus(b, e) /\ UNCHANGED << lkvars, sidevars >>
    \/ \E m \in cfg.dpms :
           EarlyDpms(m) /\ UNCHANGED << lkvars, sidevars >>
    \/ \E m \in cfg.dpms, e \in Env(cfg) :
           LateDpms(m, e) /\ UNCHANGED << lkvars, sidevars >>
    \/ Unregister /\ UNCHANGED << lkvars, sidevars >>
    \/ \E v \in cfg.gates :
           SetPanelInitialized(v) /\ UNCHANGED << lkvars, sidevars >>
    \/ \E v \in cfg.gates :
           SetAllowBlUpdate(v) /\ UNCHANGED << lkvars, sidevars >>

InitBinned == BlInit(BinnedConfigs) /\ LkInit /\ GmInit({DefaultModes}) /\ DtInit /\ AuxInit

SpecBinned == InitBinned /\ [][BinnedNext]_vars

(***************************************************************************)
(* Threads and locks.  Each step below is one lock operation, one DSI       *)
(* transfer or one wait of the function the thread runs; the backlight      *)
(* fields other than the dimming controller are left alone.                 *)
(***************************************************************************)
blfrozen == << cfg, props_brightness, props_state, props_power, bl_actual,
               last_state, allow_bl_update, bl_update_pending, bl_scale,
               bl_scale_sv, panel_initialized, hbm_mode, crtc_attached,
               last_lp_mode, regulator_mode, backlight_dimmer,
               first_brightness_set, registered, last_dpms, out, prev_call,
               sidevars >>

dimvars == << hbm, vblank_refs >>

swvars == << switch_work, gamma_work, display_mode, cur_mode, switch_pending,
             te, gamma_ready >>

wrvars == << burst, last_write >>

Goto(t, l) == pc' = [pc EXCEPT ![t] = l]

\* mutex_lock(&panel->panel_lock)
AcquirePanel(t) ==
    /\ panel_lock = NoOwner
    /\ panel_lock' = t
    /\ lock_order_ok' = (lock_order_ok /\ state_lock # t)

\* mutex_unlock(&panel->panel_lock)
ReleasePanel(t) == panel_lock' = NoOwner

\* mutex_lock(&bl->state_lock)
AcquireState(t) ==
    /\ state_lock = NoOwner
    /\ state_lock' = t

\* one DSI transfer by thread t; first, last: its place in the burst of
\* transfers the function makes
Transfer(t, first, last) ==
    /\ last_write' = [by |-> t, locked |-> panel_lock = t,
                      alone |-> burst = (IF first THEN NoOwner ELSE t)]
    /\ burst' = IF last THEN NoOwner ELSE t

---------------------------------------------------------------------------
\* dsi_backlight_update_status, called by the backlight core (thread
\* "backlight") and by dsi_backlight_late_dpms (thread "dpms")
UsLockPanel(t) ==
    /\ pc[t] = IF t = "dpms" THEN "ld_update" ELSE "idle"
    /\ AcquirePanel(t)
    /\ Goto(t, "us_panel")
    /\ UNCHANGED << blfrozen, dimvars, state_lock, swvars, wrvars >>

UsLockState(t) ==
    /\ pc[t] = "us_panel"
    /\ AcquireState(t)
    /\ Goto(t, "us_locked")
    /\ UNCHANGED << blfrozen, dimvars, panel_lock, lock_order_ok, swvars, wrvars >>

\* dsi_backlight_calculate_hbm enters a range: dimming starts, then the entry
\* command is sent; more: a brightness write follows
UsHbmEntry(t, more) ==
    LET d == dsi_backlight_hbm_dimming_start(
                 [hbm |-> hbm, refs |-> vblank_refs, cmds |-> << >>],
                 NumFrames, 2, crtc_attached, TRUE)
    IN  /\ pc[t] = "us_locked"
        /\ cfg.has_hbm
        /\ hbm' = d.hbm
        /\ vblank_refs' = d.refs
        /\ Transfer(t, TRUE, ~more)
        /\ Goto(t, IF more THEN "us_entered" ELSE "us_done")
        /\ UNCHANGED << blfrozen, panel_lock, state_lock, lock_order_ok, swvars >>

\* bl->update_bl: the brightness write
UsWrite(t) ==
    /\ pc[t] \in {"us_locked", "us_entered"}
    /\ Transfer(t, pc[t] = "us_locked", TRUE)
    /\ Goto(t, "us_done")
    /\ UNCHANGED << blfrozen, dimvars, panel_lock, state_lock, lock_order_ok,
                    swvars >>

\* the no-op and gated paths
UsSkip(t) ==
    /\ pc[t] = "us_locked"
    /\ Goto(t, "us_done")
    /\ UNCHANGED << blfrozen, dimvars, panel_lock, state_lock, lock_order_ok,
                    swvars, wrvars >>

\* done: both mutexes are released
UsUnlock(t) ==
    /\ pc[t] = "us_done"
    /\ state_lock' = NoOwner
    /\ ReleasePanel(t)
    /\ Goto(t, "idle")
    /\ UNCHANGED << blfrozen, dimvars, lock_order_ok, swvars, wrvars >>

---------------------------------------------------------------------------
\* dsi_backlight_early_dpms
EdLock ==
    /\ pc["dpms"] = "idle"
    /\ AcquireState("dpms")
    /\ Goto("dpms", "ed_locked")
    /\ UNCHANGED << blfrozen, dimvars, panel_lock, lock_order_ok, swvars, wrvars >>

EdUnlock ==
    /\ pc["dpms"] = "ed_locked"
    /\ state_lock' = NoOwner
    /\ Goto("dpms", "idle")
    /\ UNCHANGED << blfrozen, dimvars, panel_lock, lock_order_ok, swvars, wrvars >>

\* dsi_backlight_late_dpms
LdLock ==
    /\ pc["dpms"] = "idle"
    /\ AcquireState("dpms")
    /\ Goto("dpms", "ld_locked")
    /\ UNCHANGED << blfrozen, dimvars, panel_lock, lock_order_ok, swvars, wrvars >>

\* late_dpms going on to backlight_update_status with state_lock still held
LdKeepLock ==
    /\ pc["dpms"] = "ld_locked"
    /\ Goto("dpms", "ld_update")
    /\ UNCHANGED << blfrozen, dimvars, panel_lock, state_lock, lock_order_ok,
                    swvars, wrvars >>

\* late_dpms releases state_lock before it calls backlight_update_status
LdUnlock ==
    /\ pc["dpms"] = "ld_locked"
    /\ state_lock' = NoOwner
    /\ Goto("dpms", "ld_update")
    /\ UNCHANGED << blfrozen, dimvars, panel_lock, lock_order_ok, swvars, wrvars >>

---------------------------------------------------------------------------
\* attribute handlers that take state_lock: state_show, als_table_store,
\* als_table_show, and dsi_backlight_get_dpms
AttrLockState ==
    /\ pc["attr"] = "idle"
    /\ AcquireState("attr")
    /\ Goto("attr", "at_state")
    /\ UNCHANGED << blfrozen, dimvars, panel_lock, lock_order_ok, swvars, wrvars >>

AttrUnlockState ==
    /\ pc["attr"] = "at_state"
    /\ state_lock' = NoOwner
    /\ Goto("attr", "idle")
    /\ UNCHANGED << blfrozen, dimvars, panel_lock, lock_order_ok, swvars, wrvars >>

\* attribute handlers that take panel_lock: the idle_mode and switch-mode
\* attributes and the gamma debugfs file
AttrLockPanel ==
    /\ pc["attr"] = "idle"
    /\ AcquirePanel("attr")
    /\ Goto("attr", "at_panel")
    /\ UNCHANGED << blfrozen, dimvars, state_lock, swvars, wrvars >>

\* debugfs_s6e3hc2_gamma_write clears gamma_ready
AttrGammaWrite ==
    /\ pc["attr"] = "at_panel"
    /\ gamma_ready
    /\ gamma_ready' = FALSE
    /\ UNCHANGED << blfrozen, dimvars, panel_lock, state_lock, lock_order_ok,
                    pc, switch_work, gamma_work, display_mode, cur_mode,
                    switch_pending, te, wrvars >>

AttrUnlockPanel ==
    /\ pc["attr"] = "at_panel"
    /\ ReleasePanel("attr")
    /\ Goto("attr", "idle")
    /\ UNCHANGED << blfrozen, dimvars, state_lock, lock_order_ok, swvars, wrvars >>

---------------------------------------------------------------------------
\* The kthread worker of the panel switch runs switch_work and gamma_work,
\* one at a time.
KwPickSwitch ==
    /\ pc["kworker"] = "idle"
    /\ switch_work = "queued"
    /\ switch_work' = "running"
    /\ Goto("kworker", "sw_start")
    /\ UNCHANGED << blfrozen, dimvars, panel_lock, state_lock, lock_order_ok,
                    gamma_work, display_mode, cur_mode, switch_pending, te,
                    gamma_ready, wrvars >>

\* panel_switch_worker takes panel_lock and reads pdata->display_mode; with no
\* mode it unlocks and returns
SwLock ==
    /\ pc["kworker"] = "sw_start"
    /\ panel_lock = NoOwner
    /\ lock_order_ok' = (lock_order_ok /\ state_lock # "kworker")
    /\ IF display_mode = 0
       THEN /\ panel_lock' = NoOwner
            /\ switch_work' = "idle"
            /\ Goto("kworker", "idle")
       ELSE /\ panel_lock' = "kworker"
            /\ switch_work' = switch_work
            /\ Goto("kworker", "sw_locked")
    /\ UNCHANGED << blfrozen, dimvars, state_lock, gamma_work, display_mode,
                    cur_mode, switch_pending, te, gamma_ready, wrvars >>

\* the worker dropping panel_lock before it switches
SwPrepareUnlocked ==
    /\ pc["kworker"] = "sw_locked"
    /\ ReleasePanel("kworker")
    /\ te' = [listening |-> TeListenCount > 0, left |-> TeListenCount, rc |-> 0]
    /\ Goto("kworker", "sw_switch")
    /\ UNCHANGED << blfrozen, dimvars, state_lock, lock_order_ok, switch_work,
                    gamma_work, display_mode, cur_mode, switch_pending,
                    gamma_ready, wrvars >>

\* te_listen_cnt is read and the TE listener added
SwPrepare ==
    /\ pc["kworker"] = "sw_locked"
    /\ te' = [listening |-> TeListenCount > 0, left |-> TeListenCount, rc |-> 0]
    /\ Goto("kworker", "sw_switch")
    /\ UNCHANGED << blfrozen, dimvars, panel_lock, state_lock, lock_order_ok,
                    switch_work, gamma_work, display_mode, cur_mode,
                    switch_pending, gamma_ready, wrvars >>

\* panel_switch_to_mode: perform_switch sends the unlock command ...
SwSwitch ==
    /\ pc["kworker"] = "sw_switch"
    /\ Transfer("kworker", TRUE, FALSE)
    /\ Goto("kworker", "sw_switch2")
    /\ UNCHANGED << blfrozen, dimvars, panel_lock, state_lock, lock_order_ok,
                    swvars >>

\* ... then the mode update, the gamma tables and the lock command, and
\* switch_pending is cleared
SwSwitchEnd ==
    /\ pc["kworker"] = "sw_switch2"
    /\ Transfer("kworker", FALSE, TRUE)
    /\ switch_pending' = FALSE
    /\ Goto("kworker", "sw_unlock")
    /\ UNCHANGED << blfrozen, dimvars, panel_lock, state_lock, lock_order_ok,
                    switch_work, gamma_work, display_mode, cur_mode, te,
                    gamma_ready >>

\* the work item ends: the listener is removed and the worker is idle again
SwDone ==
    /\ switch_work' = "idle"
    /\ te' = [te EXCEPT !.listening = FALSE]
    /\ Goto("kworker", "idle")

\* the worker going on to its TE wait without releasing panel_lock
SwKeepLock ==
    /\ pc["kworker"] = "sw_unlock"
    /\ IF te.listening
       THEN Goto("kworker", "sw_wait") /\ UNCHANGED << switch_work, te >>
       ELSE SwDone
    /\ UNCHANGED << blfrozen, dimvars, panel_lock, state_lock, lock_order_ok,
                    gamma_work, display_mode, cur_mode, switch_pending,
                    gamma_ready, wrvars >>

\* mutex_unlock after the switch; without a TE listener the work item ends
SwUnlock ==
    /\ pc["kworker"] = "sw_unlock"
    /\ ReleasePanel("kworker")
    /\ IF te.listening
       THEN Goto("kworker", "sw_wait") /\ UNCHANGED << switch_work, te >>
       ELSE SwDone
    /\ UNCHANGED << blfrozen, dimvars, state_lock, lock_order_ok, gamma_work,
                    display_mode, cur_mode, switch_pending, gamma_ready,
                    wrvars >>

\* wait_for_completion_timeout on the TE: got = 0 is a timeout.  The first
\* wait is followed by te_listen_cnt--, each extra wait too.
SwWaitTe(got) ==
    /\ pc["kworker"] \in {"sw_wait", "sw_extra"}
    /\ pc["kworker"] = "sw_extra" => (te.rc # 0 /\ te.left > 0)
    /\ te' = [te EXCEPT !.rc = got, !.left = te.left - 1]
    /\ Goto("kworker", "sw_extra")
    /\ UNCHANGED << blfrozen, dimvars, panel_lock, state_lock, lock_order_ok,
                    switch_work, gamma_work, display_mode, cur_mode,
                    switch_pending, gamma_ready, wrvars >>

\* no extra TE wait is left, or one timed out: the listener is removed
SwFinish ==
    /\ pc["kworker"] = "sw_extra"
    /\ ~(te.rc # 0 /\ te.left > 0)
    /\ SwDone
    /\ UNCHANGED << blfrozen, dimvars, panel_lock, state_lock, lock_order_ok,
                    gamma_work, display_mode, cur_mode, switch_pending,
                    gamma_ready, wrvars >>

\* s6e3hc2_gamma_work
KwPickGamma ==
    /\ pc["kworker"] = "idle"
    /\ gamma_work = "queued"
    /\ gamma_work' = "running"
    /\ Goto("kworker", "gw_start")
    /\ UNCHANGED << blfrozen, dimvars, panel_lock, state_lock, lock_order_ok,
                    switch_work, display_mode, cur_mode, switch_pending, te,
                    gamma_ready, wrvars >>

GwLock ==
    /\ pc["kworker"] = "gw_start"
    /\ AcquirePanel("kworker")
    /\ Goto("kworker", "gw_locked")
    /\ UNCHANGED << blfrozen, dimvars, state_lock, swvars, wrvars >>

\* s6e3hc2_gamma_read_tables: nothing to do when gamma_ready, else the unlock
\* command opens the burst
GwRead ==
    /\ pc["kworker"] = "gw_locked"
    /\ IF gamma_ready
       THEN Goto("kworker", "gw_unlock") /\ UNCHANGED wrvars
       ELSE Transfer("kworker", TRUE, FALSE) /\ Goto("kworker", "gw_read")
    /\ UNCHANGED << blfrozen, dimvars, panel_lock, state_lock, lock_order_ok,
                    swvars >>

\* the reads of every mode and the lock command; ok: every read succeeded
GwReadEnd(ok) ==
    /\ pc["kworker"] = "gw_read"
    /\ Transfer("kworker", FALSE, TRUE)
    /\ gamma_ready' = ok
    /\ Goto("kworker", "gw_unlock")
    /\ UNCHANGED << blfrozen, dimvars, panel_lock, state_lock, lock_order_ok,
                    switch_work, gamma_work, display_mode, cur_mode,
                    switch_pending, te >>

GwUnlock ==
    /\ pc["kworker"] = "gw_unlock"
    /\ ReleasePanel("kworker")
    /\ gamma_work' = "idle"
    /\ Goto("kworker", "idle")
    /\ UNCHANGED << blfrozen, dimvars, state_lock, lock_order_ok, switch_work,
                    display_mode, cur_mode, switch_pending, te, gamma_ready,
                    wrvars >>

---------------------------------------------------------------------------
\* dsi_backlight_hbm_dimming_work: after a frame mutex_trylock either takes
\* panel_lock or the loop sleeps and tries again
DwTrylock ==
    /\ pc["dimming"] = "idle"
    /\ hbm.dimming_active
    /\ AcquirePanel("dimming")
    /\ Goto("dimming", "dw_locked")
    /\ UNCHANGED << blfrozen, dimvars, state_lock, swvars, wrvars >>

\* under the lock: count the frame and stop dimming at 0, which sends the
\* dimming stop command; wait_ok: the wait for the frame succeeded
DwFrame(wait_ok) ==
    LET left == IF ~wait_ok THEN 0
                ELSE IF hbm.dimming_frames_left > 0
                THEN hbm.dimming_frames_left - 1
                ELSE hbm.dimming_frames_left
        d0 == [hbm |-> [hbm EXCEPT !.dimming_frames_left = left],
               refs |-> vblank_refs, cmds |-> << >>]
        d == IF left = 0 THEN dsi_backlight_hbm_dimming_stop(d0, crtc_attached)
             ELSE d0
    IN  /\ pc["dimming"] = "dw_locked"
        /\ IF hbm.dimming_active
           THEN /\ hbm' = d.hbm
                /\ vblank_refs' = d.refs
                /\ IF d.cmds # << >> THEN Transfer("dimming", TRUE, TRUE)
                   ELSE UNCHANGED wrvars
           ELSE UNCHANGED << dimvars, wrvars >>
        /\ Goto("dimming", "dw_unlock")
        /\ UNCHANGED << blfrozen, panel_lock, state_lock, lock_order_ok, swvars >>

DwUnlock ==
    /\ pc["dimming"] = "dw_unlock"
    /\ ReleasePanel("dimming")
    /\ Goto("dimming", "idle")
    /\ UNCHANGED << blfrozen, dimvars, state_lock, lock_order_ok, swvars, wrvars >>

---------------------------------------------------------------------------
\* The commit thread: panel_switch -> panel_queue_switch(panel->cur_mode),
\* panel_idle and panel_wakeup.  m: the mode the commit has just set.
Modes == {1, 2}

idle_mode == 1

\* kthread_flush_work(&pdata->switch_work) returns once the work is not
\* queued or running
QsFlush(m) ==
    /\ pc["commit"] \in {"idle", "qs_start"}
    /\ switch_work = "idle"
    /\ cur_mode' = IF pc["commit"] = "idle" THEN m ELSE cur_mode
    /\ Goto("commit", "qs_flushed")
    /\ UNCHANGED << blfrozen, dimvars, panel_lock, state_lock, lock_order_ok,
                    switch_work, gamma_work, display_mode, switch_pending, te,
                    gamma_ready, wrvars >>

QsLock ==
    /\ pc["commit"] = "qs_flushed"
    /\ AcquirePanel("commit")
    /\ Goto("commit", "qs_locked")
    /\ UNCHANGED << blfrozen, dimvars, state_lock, swvars, wrvars >>

QsSet ==
    /\ pc["commit"] = "qs_locked"
    /\ display_mode' = cur_mode
    /\ switch_pending' = TRUE
    /\ ReleasePanel("commit")
    /\ Goto("commit", "qs_queue")
    /\ UNCHANGED << blfrozen, dimvars, state_lock, lock_order_ok, switch_work,
                    gamma_work, cur_mode, te, gamma_ready, wrvars >>

\* kthread_queue_work
QsQueue ==
    /\ pc["commit"] = "qs_queue"
    /\ switch_work' = IF switch_work = "idle" THEN "queued" ELSE switch_work
    /\ Goto("commit", "idle")
    /\ UNCHANGED << blfrozen, dimvars, panel_lock, state_lock, lock_order_ok,
                    gamma_work, display_mode, cur_mode, switch_pending, te,
                    gamma_ready, wrvars >>

\* panel_idle
IdFlush ==
    /\ pc["commit"] = "idle"
    /\ switch_work = "idle"
    /\ Goto("commit", "id_flushed")
    /\ UNCHANGED << blfrozen, dimvars, panel_lock, state_lock, lock_order_ok,
                    swvars, wrvars >>

IdLock ==
    /\ pc["commit"] = "id_flushed"
    /\ AcquirePanel("commit")
    /\ Goto("commit", "id_locked")
    /\ UNCHANGED << blfrozen, dimvars, state_lock, swvars, wrvars >>

\* with an idle mode other than the current mode the switch is done here
IdSwitch ==
    /\ pc["commit"] = "id_locked"
    /\ IF idle_mode # cur_mode
       THEN /\ display_mode' = idle_mode
            /\ Transfer("commit", TRUE, FALSE)
            /\ Goto("commit", "id_switch2")
       ELSE /\ Goto("commit", "id_unlock")
            /\ UNCHANGED << display_mode, wrvars >>
    /\ UNCHANGED << blfrozen, dimvars, panel_lock, state_lock, lock_order_ok,
                    switch_work, gamma_work, cur_mode, switch_pending, te,
                    gamma_ready >>

IdSwitchEnd ==
    /\ pc["commit"] = "id_switch2"
    /\ Transfer("commit", FALSE, TRUE)
    /\ switch_pending' = FALSE
    /\ Goto("commit", "id_unlock")
    /\ UNCHANGED << blfrozen, dimvars, panel_lock, state_lock, lock_order_ok,
                    switch_work, gamma_work, display_mode, cur_mode, te,
                    gamma_ready >>

IdUnlock ==
    /\ pc["commit"] = "id_unlock"
    /\ ReleasePanel("commit")
    /\ Goto("commit", "idle")
    /\ UNCHANGED << blfrozen, dimvars, state_lock, lock_order_ok, swvars, wrvars >>

\* panel_wakeup
WkLock ==
    /\ pc["commit"] = "idle"
    /\ AcquirePanel("commit")
    /\ Goto("commit", "wk_locked")
    /\ UNCHANGED << blfrozen, dimvars, state_lock, swvars, wrvars >>

\* a display mode other than the current mode is queued again
WkUnlock ==
    /\ pc["commit"] = "wk_locked"
    /\ ReleasePanel("commit")
    /\ Goto("commit", IF display_mode # cur_mode THEN "qs_start" ELSE "idle")
    /\ UNCHANGED << blfrozen, dimvars, state_lock, lock_order_ok, swvars, wrvars >>

---------------------------------------------------------------------------
\* panel_post_enable -> s6e3hc2_post_enable, called by the panel driver with
\* panel_lock held
PeLock ==
    /\ pc["panel"] = "idle"
    /\ AcquirePanel("panel")
    /\ Goto("panel", "pe_locked")
    /\ UNCHANGED << blfrozen, dimvars, state_lock, swvars, wrvars >>

\* kthread_flush_work(&sdata->gamma_work), then gamma_work is queued when the
\* tables are not ready, else the tables of a non-default mode are replayed
PeGamma ==
    /\ pc["panel"] = "pe_locked"
    /\ gamma_work = "idle"
    /\ IF ~gamma_ready
       THEN /\ gamma_work' = "queued"
            /\ Goto("panel", "pe_unlock")
            /\ UNCHANGED wrvars
       ELSE IF cur_mode # idle_mode
       THEN /\ Transfer("panel", TRUE, FALSE)
            /\ Goto("panel", "pe_replay")
            /\ UNCHANGED gamma_work
       ELSE /\ Goto("panel", "pe_unlock")
            /\ UNCHANGED << gamma_work, wrvars >>
    /\ UNCHANGED << blfrozen, dimvars, panel_lock, state_lock, lock_order_ok,
                    switch_work, display_mode, cur_mode, switch_pending, te,
                    gamma_ready >>

\* s6e3hc2_gamma_update_reg_locked: the tables and the lock command
PeReplayEnd ==
    /\ pc["panel"] = "pe_replay"
    /\ Transfer("panel", FALSE, TRUE)
    /\ Goto("panel", "pe_unlock")
    /\ UNCHANGED << blfrozen, dimvars, panel_lock, state_lock, lock_order_ok,
                    swvars >>

PeUnlock ==
    /\ pc["panel"] = "pe_unlock"
    /\ ReleasePanel("panel")
    /\ Goto("panel", "idle")
    /\ UNCHANGED << blfrozen, dimvars, state_lock, lock_order_ok, swvars, wrvars >>

---------------------------------------------------------------------------
Updaters == {"backlight", "dpms"}

LkNext ==
    \/ \E t \in Updaters : UsLockPanel(t)
    \/ \E t \in Updaters : UsLockState(t)
    \/ \E t \in Updaters, more \in BOOLEAN : UsHbmEntry(t, more)
    \/ \E t \in Updaters : UsWrite(t)
    \/ \E t \in Updaters : UsSkip(t)
    \/ \E t \in Updaters : UsUnlock(t)
    \/ EdLock \/ EdUnlock \/ LdLock \/ LdUnlock
    \/ AttrLockState \/ AttrUnlockState
    \/ AttrLockPanel \/ AttrGammaWrite \/ AttrUnlockPanel
    \/ KwPickSwitch \/ SwLock \/ SwPrepare \/ SwSwitch \/ SwSwitchEnd
    \/ SwUnlock
    \/ \E got \in {0, 1} : SwWaitTe(got)
    \/ SwFinish
    \/ KwPickGamma \/ GwLock \/ GwRead
    \/ \E ok \in BOOLEAN : GwReadEnd(ok)
    \/ GwUnlock
    \/ DwTrylock
    \/ \E wait_ok \in BOOLEAN : DwFrame(wait_ok)
    \/ DwUnlock
    \/ \E m \in Modes : QsFlush(m)
    \/ QsLock \/ QsSet \/ QsQueue
    \/ IdFlush \/ IdLock \/ IdSwitch \/ IdSwitchEnd \/ IdUnlock
    \/ WkLock \/ WkUnlock
    \/ PeLock \/ PeGamma \/ PeReplayEnd \/ PeUnlock

\* the panel with HBM ranges, past its first update
InitLocks ==
    /\ BlInit({c \in Configs : c.has_hbm})
    /\ LkInit
    /\ GmInit({DefaultModes}) /\ DtInit /\ AuxInit

SpecLocks == InitLocks /\ [][LkNext]_vars

(***************************************************************************)
(* DPMS state table.                                                       *)
(***************************************************************************)
DpmsCleared(m) ==
    IF m = SDE_MODE_DPMS_ON THEN {FBBLANK, LP, LP2}
    ELSE IF m = SDE_MODE_DPMS_OFF THEN {LP, LP2}
    ELSE IF m = SDE_MODE_DPMS_LP1 THEN {LP2}
    ELSE {}

DpmsSet(m) ==
    IF m = SDE_MODE_DPMS_ON THEN {}
    ELSE IF m = SDE_MODE_DPMS_OFF THEN {FBBLANK}
    ELSE IF m = SDE_MODE_DPMS_LP1 THEN {LP}
    ELSE {LP, LP2}

\* C9: the state dsi_backlight_late_dpms stores is the state before it with
\* the flags of the requested mode cleared and set: ON clears FBBLANK, LP, LP2
\* and sets nothing; OFF clears LP, LP2 and sets FBBLANK; LP1 clears LP2 and
\* sets LP; LP2 clears nothing and sets LP, LP2.
C9_DpmsStateTable ==
    out.op = "late_dpms" =>
        props_state = (out.before \ DpmsCleared(out.arg)) \cup DpmsSet(out.arg)

\* an LP1 request arrives in LP2 and clears LP2 while keeping LP
C9_Witness ==
    /\ out.op = "late_dpms"
    /\ out.arg = SDE_MODE_DPMS_LP1
    /\ LP2 \in out.before
    /\ props_state \cap {LP, LP2} = {LP}

\* C10: an OFF request after an ON request leaves FBBLANK set and LP, LP2
\* clear, and an ON request after that OFF leaves all three flags clear.
C10_OnOffOn ==
    /\ (out.op = "late_dpms" /\ out.prev_dpms = SDE_MODE_DPMS_ON
            /\ out.arg = SDE_MODE_DPMS_OFF)
       => props_state \cap {FBBLANK, LP, LP2} = {FBBLANK}
    /\ (out.op = "late_dpms" /\ out.prev_dpms = SDE_MODE_DPMS_OFF
            /\ out.arg = SDE_MODE_DPMS_ON)
       => props_state \cap {FBBLANK, LP, LP2} = {}

\* the ON request that follows an OFF request has run and cleared FBBLANK
C10_Witness ==
    /\ out.op = "late_dpms"
    /\ out.prev_dpms = SDE_MODE_DPMS_OFF
    /\ out.arg = SDE_MODE_DPMS_ON
    /\ FBBLANK \in out.before
    /\ FBBLANK \notin props_state

(***************************************************************************)
(* Brightness write path.                                                  *)
(***************************************************************************)
\* C1, as stated: when update_status is called twice in a row with identical
\* inputs (updates allowed, panel initialized, nothing in between) the two
\* calls emit exactly one brightness write in total, and the second call
\* emits no DSI command and leaves bl_actual and last_state unchanged.
C1_ExactlyOneWrite ==
    [][out'.rep =>
          /\ prev_call.writes + BlWrites(out'.cmds) = 1
          /\ out'.cmds = << >>
          /\ bl_actual' = bl_actual
          /\ last_state' = last_state]_vars

\* C1: when update_status is called twice in a row with identical inputs
\* (updates allowed, panel initialized, nothing in between) and no panel
\* transfer failed in the first call, the second call emits no DSI command and
\* leaves bl_actual and last_state unchanged, so the two calls emit at most
\* one brightness write in total.
C1_RepeatIsNoop ==
    [][(out'.rep /\ prev_call.clean) =>
          /\ prev_call.writes + BlWrites(out'.cmds) <= 1
          /\ out'.cmds = << >>
          /\ out'.path = "noop"
          /\ bl_actual' = bl_actual
          /\ last_state' = last_state]_vars

\* a repeated call followed a call that wrote a level, and emitted nothing
C1_Witness ==
    /\ out.rep
    /\ out.first_writes = 1
    /\ out.cmds = << >>
    /\ out.path = "noop"
    /\ bl_actual > 0

\* C2: on a binned-LP panel, whenever an update reaches the writer with LP or
\* LP2 in the state, no brightness write is emitted and last_lp_mode refers
\* to an LP bin.
C2_LpNeverWritesBrightness ==
    (cfg.update_bl = "binned" /\ out.path \in {"written", "failed"}
        /\ is_lp_mode(props_state))
    => (BlWrites(out.cmds) = 0 /\ last_lp_mode # NULLP)

\* C4, as stated: if the last update_status returned success and the effective
\* brightness is above 0, bl_actual lies within bl_min_level..bl_max_level.
C4_LevelWithinLimits ==
    (out.path # "none" /\ out.rc = 0 /\ out.brightness > 0)
    => (cfg.bl_min_level <= bl_actual /\ bl_actual <= cfg.bl_max_level)

\* C4: on the linear path (no LUT, HBM off, backlight dimmer off), if the last
\* update_status returned success without being gated and the effective
\* brightness is above 0, bl_actual lies within bl_min_level..bl_max_level;
\* this includes the first update after leaving LP.
C4_LinearLevelWithinLimits ==
    (out.path \in {"noop", "unwritten", "written"} /\ out.brightness > 0
        /\ ~cfg.has_lut /\ hbm_mode = HBM_MODE_OFF /\ ~backlight_dimmer)
    => (cfg.bl_min_level <= bl_actual /\ bl_actual <= cfg.bl_max_level)

\* a binned-LP panel left LP and wrote a level inside the limits
C4_Witness ==
    /\ out.path = "written"
    /\ out.brightness > 0
    /\ ~cfg.has_lut /\ hbm_mode = HBM_MODE_OFF /\ ~backlight_dimmer
    /\ cfg.update_bl = "binned"
    /\ out.op = "late_dpms" /\ is_lp_mode(out.before) /\ ~is_lp_mode(props_state)
    /\ BlWrites(out.cmds) = 1
    /\ bl_actual = cfg.bl_max_level

\* C5: after an update_status that was neither gated nor failed, bl_actual is
\* the level dsi_backlight_calculate returned in that call, also when the LP
\* binner sent a bin command instead of a brightness write.
C5_ActualIsCalculated ==
    out.path \in {"noop", "unwritten", "written"} => bl_actual = out.bl_lvl

\* a binned-LP panel left LP: the writer invalidated bl_actual, wrote the
\* computed level, and update_status stored that level
C5_Witness ==
    /\ out.path = "written"
    /\ cfg.update_bl = "binned"
    /\ is_lp_mode(out.before) /\ ~is_lp_mode(props_state)
    /\ BlWrites(out.cmds) = 1
    /\ bl_actual = out.bl_lvl
    /\ bl_actual > 0

(***************************************************************************)
(* HBM dimming controller.                                                 *)
(***************************************************************************)
\* C3: the dimming controller holds one CRTC vblank reference exactly while
\* dimming is active: whatever updates, worker iterations, vblank-wait
\* failures and teardown do, every reference taken by a dimming start is
\* released by the stop that ends it, none is left and none released twice.
C3_VblankRefBalanced ==
    vblank_refs = IF hbm.dimming_active THEN 1 ELSE 0

(***************************************************************************)
(* Locking.                                                                *)
(***************************************************************************)
\* C6: whenever the switch worker is back to idle after a work item (no mode,
\* a switch with or without TE waits, a TE timeout, extra TE waits, or the
\* gamma read work) it does not hold panel_lock; it does not hold it during
\* its TE waits either.
C6_IdleWorkerHoldsNoLock ==
    pc["kworker"] \in {"idle", "sw_wait", "sw_extra"} => panel_lock # "kworker"

\* the worker is idle again after a switch whose TE wait timed out
C6_Witness ==
    /\ pc["kworker"] = "idle"
    /\ switch_work = "idle"
    /\ last_write.by = "kworker"
    /\ display_mode # 0
    /\ te.rc = 0 /\ te.left = TeListenCount - 1
    /\ panel_lock = NoOwner

\* the points of the code at which a thread holds state_lock
StateLockSections ==
    {"us_locked", "us_entered", "us_done", "ed_locked", "ld_locked", "at_state"}

\* C7: no thread takes panel_lock while it holds state_lock: a thread that
\* holds state_lock is inside a section that takes no other lock, so the
\* only order in which both are held is panel_lock, then state_lock, and no
\* two threads can wait for each other's lock.
C7_LockOrder ==
    /\ lock_order_ok
    /\ \A t \in Threads : state_lock = t => pc[t] \in StateLockSections
    /\ \A t \in Threads :
           (state_lock = t /\ pc[t] \in {"us_locked", "us_entered", "us_done"})
           => panel_lock = t

\* late_dpms has released state_lock and taken panel_lock for its update
\* while an attribute reader holds state_lock
C7_Witness ==
    /\ pc["dpms"] = "us_panel"
    /\ panel_lock = "dpms"
    /\ state_lock = "attr"

Sent(cmds, kind) ==
    { cmds[i][2] : i \in { j \in 1..Len(cmds) : cmds[j][1] = kind } }

\* C11: with HBM on, cur_range becomes a target range only in a step that
\* emitted the target's entry command successfully, so every brightness write
\* computed in a range follows a successful entry into it.
C11_EntryBeforeRangeChange ==
    [][(hbm'.cur_range # hbm.cur_range /\ hbm'.cur_range # HBM_RANGE_MAX)
       => hbm'.cur_range \in Sent(out'.cmds, "hbm_entry")]_vars

\* C12: every vblank the dimming worker waited for successfully counts one
\* frame down; the vblank that takes dimming_frames_left from 1 to 0 (the n-th
\* one after the range was entered, when no update restarted the count) sends
\* the recorded dimming stop command exactly once, releases the vblank
\* reference and clears dimming_active, and no earlier vblank sends it.
C12_StopAfterNFrames ==
    [][(out'.op = "dimming_work" /\ out'.arg = "vblank")
       => IF hbm.dimming_frames_left = 1
          THEN /\ out'.cmds = << <<"dimming_stop", hbm.dimming_stop_cmd>> >>
               /\ ~hbm'.dimming_active
               /\ vblank_refs' = vblank_refs - 1
          ELSE /\ out'.cmds = << >>
               /\ hbm'.dimming_active
               /\ hbm'.dimming_frames_left = hbm.dimming_frames_left - 1
               /\ vblank_refs' = vblank_refs]_vars

(***************************************************************************)
(* The s6e3hc2 panel family (dsi_panel_switch.c): DSI messages, the gamma   *)
(* descriptors, reading the gamma tables and replaying them.               *)
(***************************************************************************)
\* S6E3HC2_GAMMA_BAND_LEN of the model (45 in the source)
GammaBandLen == 1

EFAULT == -14
ENODATA == -61
MIPI_DCS_WRITE_CONTROL_DISPLAY == 83
S6E3HC2_WRCTRLD_DIMMING_BIT == 8
S6E3HC2_WRCTRLD_FRAME_RATE_BIT == 16
S6E3HC2_WRCTRLD_BCTRL_BIT == 32
S6E3HC2_WRCTRLD_HBM_BIT == 192
S6E3HC2_DEFAULT_FPS == 60

unlock_cmd == << 240, 90, 90 >>
lock_cmd == << 240, 165, 165 >>

\* s6e3hc2_gamma_tables: 0xC8, 0xC9 (grouped with the next), 0xB3
s6e3hc2_gamma_tables ==
    << [cmd |-> 200, len |-> GammaBandLen * 3, prefix_len |-> 0,
        flash_offset |-> 0, cmd_group_with_next |-> FALSE],
       [cmd |-> 201, len |-> GammaBandLen * 4, prefix_len |-> 0,
        flash_offset |-> 135, cmd_group_with_next |-> TRUE],
       [cmd |-> 179, len |-> 2 + GammaBandLen, prefix_len |-> 2,
        flash_offset |-> 315, cmd_group_with_next |-> FALSE] >>

S6E3HC2_NUM_GAMMA_TABLES == Len(s6e3hc2_gamma_tables)

\* what the panel holds: register cmd answers OtpByte(cmd, j) for its j-th
\* byte, the flash answers FlashByte(offset)
OtpByte(cmd, j) == (cmd + 7 * j + 1) % 256
FlashByte(offset) == (5 * offset + 2) % 256

\* values a byte of freshly kmalloc'ed memory may have
Garbage == {0, 255}

\* the DSI message type panel_dsi_write_buf picks from the length
DsiType(len) ==
    IF len = 1 THEN "DCS_SHORT_WRITE"
    ELSE IF len = 2 THEN "DCS_SHORT_WRITE_PARAM"
    ELSE "DCS_LONG_WRITE"

\* panel_dsi_write_buf: one message; ok: the host's transfer succeeded
panel_dsi_write_buf(data, send_last, ok) ==
    [kind |-> "write", type |-> DsiType(Len(data)), tx |-> data,
     last |-> send_last, ok |-> ok]

\* DSI_WRITE_CMD_BUF: mipi_dsi_dcs_write_buffer of a constant array
DSI_WRITE_CMD_BUF(cmd, ok) ==
    [kind |-> "write", type |-> DsiType(Len(cmd)), tx |-> cmd,
     last |-> FALSE, ok |-> ok]

\* mipi_dsi_dcs_read of register cmd
mipi_dsi_dcs_read(cmd, ok) ==
    [kind |-> "read", type |-> "DCS_READ", tx |-> << cmd >>,
     last |-> FALSE, ok |-> ok]

\* s6e3hc2_write_ctrld_reg
s6e3hc2_write_ctrld_reg(hbm_enable, dimming_active, refresh_rate, send_last, ok) ==
    LET wrctrl_reg == S6E3HC2_WRCTRLD_BCTRL_BIT
                      + (IF hbm_enable THEN S6E3HC2_WRCTRLD_HBM_BIT ELSE 0)
                      + (IF dimming_active THEN S6E3HC2_WRCTRLD_DIMMING_BIT ELSE 0)
                      + (IF refresh_rate = 90 THEN S6E3HC2_WRCTRLD_FRAME_RATE_BIT
                         ELSE 0)
    IN  panel_dsi_write_buf(<< MIPI_DCS_WRITE_CONTROL_DISPLAY, wrctrl_reg >>,
                            send_last, ok)

\* s6e3hc2_switch_mode_update: neither HBM nor dimming is carried over
s6e3hc2_switch_mode_update(refresh_rate, send_last, ok) ==
    s6e3hc2_write_ctrld_reg(FALSE, FALSE, refresh_rate, send_last, ok)

\* what the host's transfer returns during one replay: gamma[i] for the
\* write of table i, rest for every other message
Transfers == [rest : BOOLEAN,
              gamma : [1..S6E3HC2_NUM_GAMMA_TABLES -> BOOLEAN]]
UniformTransfers ==
    { t \in Transfers :
        \A i \in 1..S6E3HC2_NUM_GAMMA_TABLES : t.gamma[i] = t.rest }

\* s6e3hc2_gamma_update with every table sent as the last of its group
s6e3hc2_gamma_update_ungrouped(bufs, oks) ==
    IF bufs = NoBufs THEN << >>
    ELSE [i \in 1..S6E3HC2_NUM_GAMMA_TABLES |->
             panel_dsi_write_buf(bufs[i], TRUE, oks[i])]

\* s6e3hc2_gamma_update that ends the replay at the first write that fails
RECURSIVE GammaUpdateFrom(_, _, _)
GammaUpdateFrom(bufs, oks, i) ==
    IF i > S6E3HC2_NUM_GAMMA_TABLES THEN << >>
    ELSE << panel_dsi_write_buf(bufs[i],
                                ~s6e3hc2_gamma_tables[i].cmd_group_with_next,
                                oks[i]) >>
         \o (IF oks[i] THEN GammaUpdateFrom(bufs, oks, i + 1) ELSE << >>)
s6e3hc2_gamma_update_stops_at_failure(bufs, oks) ==
    IF bufs = NoBufs THEN << >> ELSE GammaUpdateFrom(bufs, oks, 1)

\* s6e3hc2_gamma_update: the messages that replay the buffers of a mode;
\* the buffers of a mode are allocated together, so either none or every
\* table is written, whatever the earlier writes returned
s6e3hc2_gamma_update(bufs, oks) ==
    IF bufs = NoBufs THEN << >>
    ELSE [i \in 1..S6E3HC2_NUM_GAMMA_TABLES |->
             panel_dsi_write_buf(bufs[i],
                                 ~s6e3hc2_gamma_tables[i].cmd_group_with_next,
                                 oks[i])]

\* s6e3hc2_gamma_update_reg_locked
s6e3hc2_gamma_update_reg_locked(bufs, ok) ==
    << DSI_WRITE_CMD_BUF(unlock_cmd, ok.rest) >>
    \o s6e3hc2_gamma_update(bufs, ok.gamma)
    \o << DSI_WRITE_CMD_BUF(lock_cmd, ok.rest) >>

\* s6e3hc2_perform_switch to the mode with this refresh rate and buffers
s6e3hc2_perform_switch(refresh_rate, bufs, unlock_ok, ok) ==
    IF ~unlock_ok THEN << DSI_WRITE_CMD_BUF(unlock_cmd, FALSE) >>
    ELSE << DSI_WRITE_CMD_BUF(unlock_cmd, TRUE),
            s6e3hc2_switch_mode_update(refresh_rate, FALSE, ok.rest) >>
         \o s6e3hc2_gamma_update(bufs, ok.gamma)
         \o << DSI_WRITE_CMD_BUF(lock_cmd, ok.rest) >>

\* flash-mode command arrays of s6e3hc2_gamma_read_flash
flash_mode_en == << 241, 241, 162 >>
flash_mode_dis == << 241, 165, 165 >>
pgm_dis == << 192, 0 >>
pgm_en == << 192, 2 >>
exe_inst == << 192, 3 >>
write_en == << 193, 0, 0, 0, 6, 0, 0, 0, 0, 0, 0, 0, 5 >>
quad_en == << 193, 0, 0, 0, 1, 64, 2, 0, 0, 0, 0, 16 >>
gpar_cmd == << 176, 11 >>
flash_rd(offset) ==
    << 193, 0, 0, 0, 107, 0, 0, 0, 10,
       (offset \div 256) % 256, offset % 256, 0, 5, 1 >>

\* where a transfer of s6e3hc2_gamma_read_flash fails
FlashFail == {"none", "enter", "mid", "exit"}

\* s6e3hc2_gamma_alloc_mode_memory: kmalloc leaves byte g everywhere
s6e3hc2_gamma_alloc_mode_memory(bufs, g) ==
    IF bufs # NoBufs THEN bufs
    ELSE [i \in 1..S6E3HC2_NUM_GAMMA_TABLES |->
             [k \in 1..(s6e3hc2_gamma_tables[i].len + 1) |-> g]]

\* s6e3hc2_gamma_read_otp: [rc, bufs, wire]; a short read (otp_ok false)
\* stores nothing
s6e3hc2_gamma_read_otp(bufs, otp_ok) ==
    [rc |-> 0,
     bufs |-> [i \in 1..S6E3HC2_NUM_GAMMA_TABLES |->
                  LET info == s6e3hc2_gamma_tables[i]
                  IN  [k \in 1..(info.len + 1) |->
                          IF k = 1 THEN info.cmd
                          ELSE IF otp_ok THEN OtpByte(info.cmd, k - 2)
                          ELSE bufs[i][k]]],
     wire |-> [i \in 1..S6E3HC2_NUM_GAMMA_TABLES |->
                  mipi_dsi_dcs_read(s6e3hc2_gamma_tables[i].cmd, otp_ok)]]

\* the messages that read one table from flash, four per byte
FlashTableMsgs(info) ==
    [k \in 1..(4 * (info.len - info.prefix_len)) |->
        LET j == (k - 1) \div 4
            r == (k - 1) % 4
        IN  IF r = 0 THEN DSI_WRITE_CMD_BUF(flash_rd(info.flash_offset + j), TRUE)
            ELSE IF r = 1 THEN DSI_WRITE_CMD_BUF(exe_inst, TRUE)
            ELSE IF r = 2 THEN DSI_WRITE_CMD_BUF(gpar_cmd, TRUE)
            ELSE mipi_dsi_dcs_read(251, TRUE)]

\* buffer i after its flash read: the command byte, then the bytes from
\* prefix_len on; the prefix bytes are left as they were
FlashFilled(bufs, i) ==
    LET info == s6e3hc2_gamma_tables[i]
    IN  [k \in 1..(info.len + 1) |->
            IF k = 1 THEN info.cmd
            ELSE IF k - 2 >= info.prefix_len
            THEN FlashByte(info.flash_offset + (k - 2 - info.prefix_len))
            ELSE bufs[i][k]]

RECURSIVE FlashMsgsUpTo(_)
FlashMsgsUpTo(n) ==
    IF n = 0 THEN << >>
    ELSE FlashMsgsUpTo(n - 1) \o FlashTableMsgs(s6e3hc2_gamma_tables[n])

\* s6e3hc2_gamma_read_flash: [rc, bufs, wire].  fail "enter": flash_mode_en
\* fails; "mid": the first flash_rd of the second table fails; "exit": pgm_dis
\* fails
s6e3hc2_gamma_read_flash(bufs, fail) ==
    LET pro == << DSI_WRITE_CMD_BUF(flash_mode_en, TRUE),
                  DSI_WRITE_CMD_BUF(pgm_en, TRUE),
                  DSI_WRITE_CMD_BUF(write_en, TRUE),
                  DSI_WRITE_CMD_BUF(exe_inst, TRUE),
                  DSI_WRITE_CMD_BUF(quad_en, TRUE),
                  DSI_WRITE_CMD_BUF(exe_inst, TRUE) >>
        all == [i \in 1..S6E3HC2_NUM_GAMMA_TABLES |-> FlashFilled(bufs, i)]
    IN  IF fail = "enter"
        THEN [rc |-> EFAULT, bufs |-> bufs,
              wire |-> << DSI_WRITE_CMD_BUF(flash_mode_en, FALSE) >>]
        ELSE IF fail = "mid"
        THEN [rc |-> EFAULT,
              bufs |-> [i \in 1..S6E3HC2_NUM_GAMMA_TABLES |->
                           IF i = 1 THEN all[1]
                           ELSE IF i = 2
                           THEN [bufs[2] EXCEPT ![1] = s6e3hc2_gamma_tables[2].cmd]
                           ELSE bufs[i]],
              wire |-> pro \o FlashMsgsUpTo(1)
                       \o << DSI_WRITE_CMD_BUF(
                                 flash_rd(s6e3hc2_gamma_tables[2].flash_offset),
                                 FALSE) >>]
        ELSE IF fail = "exit"
        THEN [rc |-> EFAULT, bufs |-> all,
              wire |-> pro \o FlashMsgsUpTo(S6E3HC2_NUM_GAMMA_TABLES)
                       \o << DSI_WRITE_CMD_BUF(pgm_dis, FALSE) >>]
        ELSE [rc |-> 0, bufs |-> all,
              wire |-> pro \o FlashMsgsUpTo(S6E3HC2_NUM_GAMMA_TABLES)
                       \o << DSI_WRITE_CMD_BUF(pgm_dis, TRUE),
                             DSI_WRITE_CMD_BUF(flash_mode_dis, TRUE) >>]

\* s6e3hc2_gamma_read_mode: [rc, bufs, wire]
s6e3hc2_gamma_read_mode(bufs, refresh_rate, e) ==
    LET mem == s6e3hc2_gamma_alloc_mode_memory(bufs, e.garbage)
    IN  IF refresh_rate = 60 THEN s6e3hc2_gamma_read_otp(mem, e.otp_ok)
        ELSE IF refresh_rate = 90 THEN s6e3hc2_gamma_read_flash(mem, e.flash)
        ELSE [rc |-> EINVAL, bufs |-> mem, wire |-> << >>]

\* find_gamma_data_for_refresh_rate: 0 or ENODATA
find_gamma_data_for_refresh_rate(mode_list, data, refresh_rate) ==
    IF \E i \in 1..Len(mode_list) : mode_list[i] = refresh_rate
    THEN IF data[refresh_rate] = NoBufs THEN ENODATA ELSE 0
    ELSE ENODATA

\* prefix merging that copies from the start of the buffer, command byte
\* included
MergePrefixFromCmdByte(otp, flash, prefix_len) ==
    [k \in 1..Len(flash) |-> IF k <= prefix_len THEN otp[k] ELSE flash[k]]

\* the memcpy of s6e3hc2_gamma_set_prefixes: prefix_len bytes after the
\* command byte
MergePrefix(otp, flash, prefix_len) ==
    [k \in 1..Len(flash) |->
        IF 2 <= k /\ k <= prefix_len + 1 THEN otp[k] ELSE flash[k]]

\* s6e3hc2_gamma_set_prefixes: [rc, data]
s6e3hc2_gamma_set_prefixes(mode_list, data) ==
    IF find_gamma_data_for_refresh_rate(mode_list, data, 60) # 0
    THEN [rc |-> ENODATA, data |-> data]
    ELSE IF find_gamma_data_for_refresh_rate(mode_list, data, 90) # 0
    THEN [rc |-> ENODATA, data |-> data]
    ELSE [rc |-> 0,
          data |-> [data EXCEPT ![90] =
              [i \in 1..S6E3HC2_NUM_GAMMA_TABLES |->
                  IF s6e3hc2_gamma_tables[i].prefix_len = 0 THEN data[90][i]
                  ELSE MergePrefix(data[60][i], data[90][i],
                                   s6e3hc2_gamma_tables[i].prefix_len)]]]

\* the loop of s6e3hc2_gamma_read_tables over the modes from index i on; it
\* stops at the first mode whose read fails.  st: [rc, data, wire]
RECURSIVE ReadModesFrom(_, _, _, _)
ReadModesFrom(mode_list, i, st, e) ==
    IF i > Len(mode_list) THEN st
    ELSE LET rate == mode_list[i]
             r == s6e3hc2_gamma_read_mode(st.data[rate], rate, e)
             st2 == [rc |-> r.rc, data |-> [st.data EXCEPT ![rate] = r.bufs],
                     wire |-> st.wire \o r.wire]
         IN  IF r.rc # 0 THEN st2 ELSE ReadModesFrom(mode_list, i + 1, st2, e)

\* s6e3hc2_gamma_read_tables that reads again although the tables are ready
s6e3hc2_gamma_read_tables_always(mode_list, ready, data, e) ==
    IF ~e.unlock_ok
    THEN [rc |-> EFAULT, ready |-> ready, data |-> data, read |-> data,
          wire |-> << DSI_WRITE_CMD_BUF(unlock_cmd, FALSE) >>]
    ELSE LET st == ReadModesFrom(mode_list, 1,
                       [rc |-> 0, data |-> data,
                        wire |-> << DSI_WRITE_CMD_BUF(unlock_cmd, TRUE) >>], e)
             p == IF st.rc = 0
                  THEN s6e3hc2_gamma_set_prefixes(mode_list, st.data)
                  ELSE [rc |-> st.rc, data |-> st.data]
         IN  [rc |-> IF e.lock_ok THEN p.rc ELSE EFAULT,
              ready |-> (ready \/ p.rc = 0),
              data |-> p.data, read |-> st.data,
              wire |-> st.wire \o << DSI_WRITE_CMD_BUF(lock_cmd, e.lock_ok) >>]

\* s6e3hc2_gamma_read_tables that returns where a read fails
s6e3hc2_gamma_read_tables_returns_on_error(mode_list, ready, data, e) ==
    LET r == s6e3hc2_gamma_read_tables_always(mode_list, FALSE, data, e)
    IN  IF ready
        THEN [rc |-> 0, ready |-> ready, data |-> data, read |-> data,
              wire |-> << >>]
        ELSE IF e.unlock_ok /\ ~r.ready
        THEN [r EXCEPT !.wire = SubSeq(r.wire, 1, Len(r.wire) - 1)]
        ELSE r

\* s6e3hc2_gamma_read_tables: [rc, ready, data, wire]; read: the buffers as
\* the reads left them, before the prefixes were merged
s6e3hc2_gamma_read_tables(mode_list, ready, data, e) ==
    IF ready
    THEN [rc |-> 0, ready |-> ready, data |-> data, read |-> data,
          wire |-> << >>]
    ELSE IF ~e.unlock_ok
    THEN [rc |-> EFAULT, ready |-> ready, data |-> data, read |-> data,
          wire |-> << DSI_WRITE_CMD_BUF(unlock_cmd, FALSE) >>]
    ELSE LET st == ReadModesFrom(mode_list, 1,
                       [rc |-> 0, data |-> data,
                        wire |-> << DSI_WRITE_CMD_BUF(unlock_cmd, TRUE) >>], e)
             p == IF st.rc = 0
                  THEN s6e3hc2_gamma_set_prefixes(mode_list, st.data)
                  ELSE [rc |-> st.rc, data |-> st.data]
         IN  [rc |-> IF e.lock_ok THEN p.rc ELSE EFAULT,
              ready |-> (p.rc = 0),
              data |-> p.data, read |-> st.data,
              wire |-> st.wire \o << DSI_WRITE_CMD_BUF(lock_cmd, e.lock_ok) >>]

\* s6e3hc2_need_update_gamma; on: power_mode is SDE_MODE_DPMS_ON and the mode
\* has no DSI_MODE_FLAG_DMS
s6e3hc2_need_update_gamma(refresh_rate, on) ==
    refresh_rate # S6E3HC2_DEFAULT_FPS /\ on

(***************************************************************************)
(* The s6e3hc2 operations as actions.                                      *)
(***************************************************************************)
\* the mode lists of a panel: both modes in either order, one of them
\* missing, and a mode whose refresh rate the driver does not know
ModeLists == { << 60, 90 >>, << 90, 60 >>, << 60 >>, << 90 >>,
               << 60, 90, 120 >> }

ReadEnv == [unlock_ok : BOOLEAN, otp_ok : BOOLEAN, flash : FlashFail,
            lock_ok : BOOLEAN, garbage : Garbage]

\* timing.refresh_rate of a mode
ModeRate(m) == IF m = 1 THEN 60 ELSE 90

pnfrozen == << blvars, dtvars, auxvars, panel_lock, state_lock, pc, switch_work, gamma_work,
               display_mode, switch_pending, te, burst, last_write,
               lock_order_ok >>

\* s6e3hc2_gamma_work and debugfs_s6e3hc2_gamma_read: read the tables
ReadTables(e) ==
    LET r == s6e3hc2_gamma_read_tables(modes, gamma_ready, gamma_data, e)
    IN  /\ gamma_ready' = r.ready
        /\ gamma_data' = r.data
        /\ wire' = r.wire
        /\ pout' = [op |-> "read_tables", arg |-> 0, rc |-> r.rc,
                    was_ready |-> gamma_ready, before |-> gamma_data,
                    read |-> r.read]
        /\ UNCHANGED << pnfrozen, cur_mode, modes >>

\* debugfs_s6e3hc2_gamma_write
GammaWrite ==
    /\ gamma_ready
    /\ gamma_ready' = FALSE
    /\ wire' = << >>
    /\ pout' = [op |-> "gamma_write", arg |-> 0, rc |-> 0,
                was_ready |-> gamma_ready, before |-> gamma_data,
                read |-> gamma_data]
    /\ UNCHANGED << pnfrozen, cur_mode, modes, gamma_data >>

\* a commit sets panel->cur_mode to mode m and the switch worker runs
\* s6e3hc2_perform_switch for it; pout.rc holds the refresh rate left behind
PerformSwitch(m, unlock_ok, ok) ==
    /\ \E i \in 1..Len(modes) : modes[i] = ModeRate(m)
    /\ cur_mode' = m
    /\ wire' = s6e3hc2_perform_switch(ModeRate(m), gamma_data[ModeRate(m)],
                                      unlock_ok, ok)
    /\ pout' = [op |-> "perform_switch", arg |-> ModeRate(m),
                rc |-> ModeRate(cur_mode), was_ready |-> gamma_ready,
                before |-> gamma_data,
                read |-> gamma_data]
    /\ UNCHANGED << pnfrozen, gamma_ready, modes, gamma_data >>

\* s6e3hc2_post_enable once the tables are ready: the replay for the current
\* mode when it is needed
PostEnable(on, ok) ==
    /\ gamma_ready
    /\ wire' = IF s6e3hc2_need_update_gamma(ModeRate(cur_mode), on)
               THEN s6e3hc2_gamma_update_reg_locked(
                        gamma_data[ModeRate(cur_mode)], ok)
               ELSE << >>
    /\ pout' = [op |-> "post_enable", arg |-> ModeRate(cur_mode), rc |-> 0,
                was_ready |-> gamma_ready, before |-> gamma_data,
                read |-> gamma_data]
    /\ UNCHANGED << pnfrozen, cur_mode, gamma_ready, modes, gamma_data >>

PanelNext ==
    \/ \E e \in ReadEnv : ReadTables(e)
    \/ GammaWrite
    \/ \E m \in Modes, unlock_ok \in BOOLEAN, ok \in Transfers :
           PerformSwitch(m, unlock_ok, ok)
    \/ \E on \in BOOLEAN, ok \in Transfers : PostEnable(on, ok)

InitPanel == BlInit({BaseCfg}) /\ LkInit /\ GmInit(ModeLists) /\ DtInit /\ AuxInit

SpecPanel == InitPanel /\ [][PanelNext]_vars

(***************************************************************************)
(* Refresh-rate switch and gamma tables of the s6e3hc2 family.             *)
(***************************************************************************)
\* the last panel operation was the switch from the 60 Hz to the 90 Hz mode
Switched60To90 ==
    pout.op = "perform_switch" /\ pout.rc = 60 /\ pout.arg = 90

\* unlock, WRCTRLD with bit4 set, the three gamma buffers of the 90 Hz mode in
\* declared order with the second grouped with the third, lock
SwitchSequence(w) ==
    /\ Len(w) = 3 + S6E3HC2_NUM_GAMMA_TABLES
    /\ w[1].tx = unlock_cmd
    /\ w[2].tx[1] = MIPI_DCS_WRITE_CONTROL_DISPLAY
    /\ Len(w[2].tx) = 2
    /\ (w[2].tx[2] \div S6E3HC2_WRCTRLD_FRAME_RATE_BIT) % 2 = 1
    /\ \A i \in 1..S6E3HC2_NUM_GAMMA_TABLES :
          /\ w[2 + i].tx = gamma_data[90][i]
          /\ w[2 + i].tx[1] = s6e3hc2_gamma_tables[i].cmd
          /\ w[2 + i].last = (i # 2)
    /\ w[Len(w)].tx = lock_cmd

\* C13 as stated: the switch from 60 Hz to 90 Hz emits unlock, WRCTRLD with
\* bit4, the three gamma writes and lock, 7 DCS transactions in total.
C13_SevenTransactions ==
    Switched60To90 => (SwitchSequence(wire) /\ Len(wire) = 7)

\* C13: when the gamma tables have been read (gamma_ready) and the unlock
\* transfer succeeds, the switch from 60 Hz to 90 Hz emits exactly unlock, one
\* WRCTRLD write with bit4 set, the three gamma buffers in declared order (the
\* second without the last-command flag, i.e. grouped with the third) and lock:
\* 6 DCS transactions, 5 long writes and one short write with parameter.
C13_SixTransactions ==
    (Switched60To90 /\ gamma_ready /\ wire[1].ok)
    => /\ SwitchSequence(wire)
       /\ Len(wire) = 6
       /\ \A i \in 1..Len(wire) :
             wire[i].type = IF i = 2 THEN "DCS_SHORT_WRITE_PARAM"
                            ELSE "DCS_LONG_WRITE"

\* the switch to 90 Hz ran with the tables read and sent all six messages
C13_Witness ==
    /\ Switched60To90
    /\ gamma_ready
    /\ Len(wire) = 6
    /\ \A i \in 1..Len(wire) : wire[i].ok

\* the last panel operation read the tables and merged the prefixes
PrefixesMerged ==
    pout.op = "read_tables" /\ ~pout.was_ready /\ gamma_ready

\* C14: after prefix merging, for every descriptor with prefix_len > 0 the
\* first prefix_len payload bytes of the 90 Hz (flash) buffer equal those of
\* the 60 Hz (OTP) buffer; the command byte, every payload byte from prefix_len
\* on, every descriptor with prefix_len = 0 and the whole OTP buffer are as the
\* reads left them.
C14_PrefixMerge ==
    PrefixesMerged =>
        /\ \A i \in 1..S6E3HC2_NUM_GAMMA_TABLES :
              \A k \in 1..(s6e3hc2_gamma_tables[i].len + 1) :
                 IF 2 <= k /\ k <= s6e3hc2_gamma_tables[i].prefix_len + 1
                 THEN gamma_data[90][i][k] = gamma_data[60][i][k]
                 ELSE gamma_data[90][i][k] = pout.read[90][i][k]
        /\ gamma_data[60] = pout.read[60]

\* the merge replaced both prefix bytes of the 0xB3 buffer read from flash
C14_Witness ==
    /\ PrefixesMerged
    /\ \A k \in 2..3 : gamma_data[90][3][k] # pout.read[90][3][k]

\* the gamma writes among the messages w, as byte strings
GammaBytes(w) ==
    LET IsGamma(m) == /\ m.kind = "write"
                      /\ \E i \in 1..S6E3HC2_NUM_GAMMA_TABLES :
                            m.tx[1] = s6e3hc2_gamma_tables[i].cmd
        g == SelectSeq(w, IsGamma)
    IN  [i \in 1..Len(g) |-> g[i].tx]

Replays == {"perform_switch", "post_enable"}

\* C15: a call of read_tables made while gamma_ready is true emits no DSI
\* command, reads nothing, leaves every gamma buffer unchanged and returns
\* success; and two replays of the gamma tables in a row for the same mode send
\* the same byte strings.
C15_ReadyIsNoopReplayIsStable ==
    [][/\ (pout'.op = "read_tables" /\ pout'.was_ready)
          => (wire' = << >> /\ gamma_data' = gamma_data /\ pout'.rc = 0
              /\ gamma_ready')
       /\ (/\ pout.op \in Replays /\ pout'.op \in Replays
           /\ pout'.arg = pout.arg
           /\ GammaBytes(wire) # << >> /\ GammaBytes(wire') # << >>)
          => GammaBytes(wire') = GammaBytes(wire)]_vars

\* read_tables ran with the tables ready, after a replay of the 90 Hz tables
C15_Witness ==
    /\ pout.op = "read_tables"
    /\ pout.was_ready
    /\ gamma_data[90] # NoBufs
    /\ wire = << >>

(***************************************************************************)
(* Binned LP modes.                                                        *)
(***************************************************************************)
\* the bins a brightness fits in: those with bl_threshold >= brightness
FittingBins(brightness) ==
    { i \in 1..Len(cfg.thresholds) : U32Le(brightness, cfg.thresholds[i]) }

\* an update reached the writer of a binned-LP panel with LP or LP2 set
LpUpdate == /\ cfg.update_bl = "binned"
            /\ out'.path \in {"written", "failed"}
            /\ is_lp_mode(props_state')

\* C16: while the state includes LP, an update selects, among the bins whose
\* bl_threshold >= the brightness, the one with the lowest threshold (the
\* first such bin of an ascending list), and emits that bin's command if and
\* only if the selected bin differs from last_lp_mode.
C16_FirstBinOfAscendingList ==
    [][(LpUpdate /\ FittingBins(props_brightness') # {})
       => /\ last_lp_mode' \in FittingBins(props_brightness')
          /\ \A j \in FittingBins(props_brightness') :
                 U32Le(cfg.thresholds[last_lp_mode'], cfg.thresholds[j])
          /\ Sent(out'.cmds, "lp_mode") =
                 IF last_lp_mode' # last_lp_mode THEN {last_lp_mode'} ELSE {}]_vars
(***************************************************************************)
(* Parsing of the HBM configuration.  A u32 property of the device tree is  *)
(* << >> when absent and << v >> when present; a command set is its number  *)
(* of commands (0 when the property is absent).                             *)
(***************************************************************************)
EPROBE_DEFER == -517

\* of_property_read_u32: -EINVAL when the property does not exist
of_property_read_u32(prop) ==
    IF prop = << >> THEN [rc |-> EINVAL, val |-> 0]
    ELSE [rc |-> 0, val |-> prop[1]]

\* dsi_panel_parse_dt_cmd_set: an error when the property does not exist
dsi_panel_parse_dt_cmd_set(count) ==
    [rc |-> IF count = 0 THEN EINVAL ELSE 0, count |-> count]

DimmingUnpaired(stop_count, frames) ==
    (stop_count # 0 /\ frames = 0) \/ (stop_count = 0 /\ frames # 0)

\* dsi_panel_bl_parse_hbm_node: returns [rc, range]; the two range checks
\* return rc as the successful property read left it
dsi_panel_bl_parse_hbm_node(brightness_max_level, np) ==
    LET thr == of_property_read_u32(np.threshold)
        lo == of_property_read_u32(np.min_level)
        hi == of_property_read_u32(np.max_level)
        fr == of_property_read_u32(np.num_dimming_frames)
        frames == IF fr.rc # 0 THEN 0 ELSE fr.val
        r1 == [NoRange EXCEPT !.user_bri_start = thr.val]
        r2 == [r1 EXCEPT !.panel_bri_start = lo.val]
        r3 == [r2 EXCEPT !.panel_bri_end = hi.val,
                         !.entry_cmd = np.entry_cmd,
                         !.num_dimming_frames = frames,
                         !.dimming_stop_cmd = np.dimming_stop_cmd]
    IN  IF thr.rc # 0 THEN [rc |-> thr.rc, range |-> NoRange]
        ELSE IF thr.val > brightness_max_level
        THEN [rc |-> thr.rc, range |-> NoRange]
        ELSE IF lo.rc # 0 THEN [rc |-> lo.rc, range |-> r1]
        ELSE IF hi.rc # 0 THEN [rc |-> hi.rc, range |-> r2]
        ELSE IF hi.val < lo.val THEN [rc |-> hi.rc, range |-> r2]
        ELSE IF DimmingUnpaired(np.dimming_stop_cmd, frames)
        THEN [rc |-> EINVAL, range |-> r3]
        ELSE [rc |-> 0, range |-> r3]

\* for_each_child_of_node: ranges[i] for the children up to the first one
\* whose parse fails; returns [rc, ranges]
RECURSIVE ParseHbmNodes(_, _, _)
ParseHbmNodes(brightness_max_level, nodes, done) ==
    IF nodes = << >> THEN [rc |-> 0, ranges |-> done]
    ELSE LET r == dsi_panel_bl_parse_hbm_node(brightness_max_level, Head(nodes))
         IN  IF r.rc # 0 THEN [rc |-> r.rc, ranges |-> Append(done, r.range)]
             ELSE ParseHbmNodes(brightness_max_level, Tail(nodes),
                                Append(done, r.range))

\* the loop over i < num_ranges - 1 and the assignment after it
FillUserBriEnd(ranges, brightness_max_level) ==
    [i \in 1..Len(ranges) |->
        [ranges[i] EXCEPT !.user_bri_end =
            IF i < Len(ranges) THEN ranges[i + 1].user_bri_start - 1
            ELSE brightness_max_level]]

\* dsi_panel_bl_parse_hbm: returns [rc, hbm] with hbm what bl->hbm is left as
dsi_panel_bl_parse_hbm(brightness_max_level, dt) ==
    LET num_ranges == Len(dt.ranges)
        fr == of_property_read_u32(dt.exit_num_dimming_frames)
        exit_frames == IF fr.rc # 0 THEN 0 ELSE fr.val
        stop == dsi_panel_parse_dt_cmd_set(dt.exit_dimming_stop_cmd)
        nodes == ParseHbmNodes(brightness_max_level, dt.ranges, << >>)
        unsorted == \E i \in 1..(num_ranges - 1) :
                        nodes.ranges[i].user_bri_start >=
                            nodes.ranges[i + 1].user_bri_start
    IN  IF ~dt.present THEN [rc |-> 0, hbm |-> NoHbmData]
        ELSE IF num_ranges = 0 \/ num_ranges > HBM_RANGE_MAX
        THEN [rc |-> EINVAL, hbm |-> NoHbmData]
        ELSE IF DimmingUnpaired(stop.count, exit_frames)
        THEN [rc |-> stop.rc, hbm |-> NoHbmData]
        ELSE IF nodes.rc # 0 THEN [rc |-> nodes.rc, hbm |-> NoHbmData]
        ELSE IF unsorted THEN [rc |-> EINVAL, hbm |-> NoHbmData]
        ELSE [rc |-> 0,
              hbm |-> [present |-> TRUE,
                       ranges |-> FillUserBriEnd(nodes.ranges,
                                                 brightness_max_level),
                       exit_cmd |-> dt.exit_cmd,
                       exit_num_dimming_frames |-> exit_frames,
                       exit_dimming_stop_cmd |-> stop.count]]

\* dsi_panel_bl_parse_config from the LUT on: e.lut_ok is the outcome of
\* dsi_panel_bl_parse_lut, e.high_byte the property
\* google,dsi-bl-cmd-high-byte-offset, e.en_gpio what get_named_gpio found
dsi_panel_bl_parse_config(brightness_max_level, dt, e) ==
    LET h == dsi_panel_bl_parse_hbm(brightness_max_level, dt)
        hb == of_property_read_u32(e.high_byte)
    IN  IF ~e.lut_ok
        THEN [done |-> TRUE, hbm_parsed |-> FALSE, rc |-> EINVAL, hbm_rc |-> 0,
              hbm |-> NoHbmData]
        ELSE [done |-> TRUE, hbm_parsed |-> TRUE,
              rc |-> IF e.en_gpio = "valid" THEN hb.rc
                     ELSE IF e.en_gpio = "defer" THEN EPROBE_DEFER ELSE 0,
              hbm_rc |-> h.rc, hbm |-> h.hbm]

\* the children of google,hbm-ranges
HbmRangeNodes ==
    [threshold : {<< >>, <<1>>, <<MaxBri>>, <<MaxBri + 1>>},
     min_level : {<< >>, <<2>>, <<6>>}, max_level : {<< >>, <<4>>},
     entry_cmd : {1}, num_dimming_frames : {<< >>, <<NumFrames>>},
     dimming_stop_cmd : {0, 1}]

HbmDts ==
    {NoDt} \cup
    [present : {TRUE},
     ranges : {<< >>} \cup { <<a>> : a \in HbmRangeNodes }
                \cup { <<a, b>> : a, b \in HbmRangeNodes },
     exit_cmd : {1}, exit_num_dimming_frames : {<< >>, <<NumFrames>>},
     exit_dimming_stop_cmd : {0, 1}]

ParseEnv ==
    [lut_ok : BOOLEAN, high_byte : {<< >>, <<8>>},
     en_gpio : {"valid", "defer", "none"}]

\* the panel probe parses the backlight configuration of its device tree
ParseConfig(dt, e) ==
    /\ ~bl_parse.done
    /\ hbm_dt' = dt
    /\ bl_parse' = dsi_panel_bl_parse_config(cfg.brightness_max_level, dt, e)
    /\ UNCHANGED << blvars, lkvars, gmvars, auxvars >>

ParseNext ==
    /\ ~bl_parse.done
    /\ \E dt \in HbmDts, e \in ParseEnv : ParseConfig(dt, e)

InitParse == BlInit({BaseCfg}) /\ LkInit /\ GmInit({DefaultModes}) /\ DtInit /\ AuxInit

SpecParse == InitParse /\ [][ParseNext]_vars

\* the device tree breaks one of the rules for HBM configurations: ranges
\* not sorted by threshold or overlapping, a range whose bl-max-level is below
\* its bl-min-level, or a dimming stop command without a frame count (or
\* the reverse) for a range or for HBM exit
Frames(prop) == IF prop = << >> THEN 0 ELSE prop[1]

DtBreaksRule(dt) ==
    /\ dt.present
    /\ Len(dt.ranges) > 0
    /\ \A i \in 1..Len(dt.ranges) :
           /\ dt.ranges[i].threshold # << >>
           /\ dt.ranges[i].threshold[1] <= cfg.brightness_max_level
           /\ dt.ranges[i].min_level # << >>
           /\ dt.ranges[i].max_level # << >>
    /\ \/ \E i \in 1..(Len(dt.ranges) - 1) :
              dt.ranges[i].threshold[1] >= dt.ranges[i + 1].threshold[1]
       \/ \E i \in 1..Len(dt.ranges) :
              \/ dt.ranges[i].max_level[1] < dt.ranges[i].min_level[1]
              \/ DimmingUnpaired(dt.ranges[i].dimming_stop_cmd,
                                 Frames(dt.ranges[i].num_dimming_frames))
       \/ DimmingUnpaired(dt.exit_dimming_stop_cmd,
                          Frames(dt.exit_num_dimming_frames))

\* C17: when the device tree breaks a rule for HBM configurations, parsing
\* the configuration fails with an error and leaves no HBM data.
C17_RuleViolationsAreFatal ==
    (bl_parse.hbm_parsed /\ DtBreaksRule(hbm_dt))
    => (bl_parse.rc # 0 /\ ~bl_parse.hbm.present)

\* C18: whenever HBM data exists after parsing, each range ends one below
\* the start of the next, the last range ends at brightness_max_level, every
\* range has panel_bri_start <= panel_bri_end, and a dimming stop command is
\* present exactly when the number of dimming frames is above 0, for every
\* range and for HBM exit.
C18_ParsedHbmDataInvariants ==
    bl_parse.hbm.present
    => LET r == bl_parse.hbm.ranges
       IN  /\ \A i \in 1..(Len(r) - 1) :
                  r[i + 1].user_bri_start = r[i].user_bri_end + 1
           /\ r[Len(r)].user_bri_end = cfg.brightness_max_level
           /\ \A i \in 1..Len(r) :
                  /\ r[i].panel_bri_start <= r[i].panel_bri_end
                  /\ (r[i].dimming_stop_cmd # 0) <=> (r[i].num_dimming_frames > 0)
           /\ (bl_parse.hbm.exit_dimming_stop_cmd # 0)
                  <=> (bl_parse.hbm.exit_num_dimming_frames > 0)
(***************************************************************************)
(* The pre-kickoff barrier and the switch worker under fair scheduling.    *)
(***************************************************************************)
\* wait_event_timeout(wq, condition, timeout): above 0 once the condition is
\* true, 0 when the timeout expired with the condition false; it returns
\* at all only in one of these two cases
wait_event_timeout(condition, expired) ==
    [returns |-> condition \/ expired, remaining |-> IF condition THEN 1 ELSE 0]

\* panel_pre_kickoff, called by the commit thread before it submits a frame
PkWait ==
    /\ pc["commit"] = "idle"
    /\ Goto("commit", "pk_wait")
    /\ UNCHANGED << blfrozen, dimvars, panel_lock, state_lock, lock_order_ok,
                    swvars, wrvars >>

\* the wait ends: with 0 the warning is printed before the return
PkReturn(expired) ==
    LET w == wait_event_timeout(~switch_pending, expired)
    IN  /\ pc["commit"] = "pk_wait"
        /\ w.returns
        /\ Goto("commit", IF w.remaining = 0 THEN "pk_warn" ELSE "idle")
        /\ UNCHANGED << blfrozen, dimvars, panel_lock, state_lock,
                        lock_order_ok, swvars, wrvars >>

PkWarn ==
    /\ pc["commit"] = "pk_warn"
    /\ Goto("commit", "idle")
    /\ UNCHANGED << blfrozen, dimvars, panel_lock, state_lock, lock_order_ok,
                    swvars, wrvars >>

\* the commit thread, the switch worker, post_enable and the gamma attribute
SwitchNext ==
    \/ PkWait
    \/ \E expired \in BOOLEAN : PkReturn(expired)
    \/ PkWarn
    \/ \E m \in Modes : QsFlush(m)
    \/ QsLock \/ QsSet \/ QsQueue
    \/ IdFlush \/ IdLock \/ IdSwitch \/ IdSwitchEnd \/ IdUnlock
    \/ WkLock \/ WkUnlock
    \/ KwPickSwitch \/ SwLock \/ SwPrepare \/ SwSwitch \/ SwSwitchEnd
    \/ SwUnlock
    \/ \E got \in {0, 1} : SwWaitTe(got)
    \/ SwFinish
    \/ KwPickGamma \/ GwLock \/ GwRead
    \/ \E ok \in BOOLEAN : GwReadEnd(ok)
    \/ GwUnlock
    \/ AttrLockPanel \/ AttrGammaWrite \/ AttrUnlockPanel
    \/ PeLock \/ PeGamma \/ PeReplayEnd \/ PeUnlock

\* Scheduling: a thread that can take its next step takes it (WF); a thread
\* waiting for a mutex gets it when the mutex is released again and again
\* (SF); the timeout of a wait expires.  Nothing obliges a caller to start a
\* new request.
SwitchFairness ==
    /\ WF_vars(\E expired \in BOOLEAN : PkReturn(expired)) /\ WF_vars(PkWarn)
    /\ WF_vars(\E m \in Modes : pc["commit"] = "qs_start" /\ QsFlush(m))
    /\ SF_vars(QsLock) /\ WF_vars(QsSet) /\ WF_vars(QsQueue)
    /\ SF_vars(IdLock) /\ WF_vars(IdSwitch) /\ WF_vars(IdSwitchEnd)
    /\ WF_vars(IdUnlock) /\ WF_vars(WkUnlock)
    /\ WF_vars(KwPickSwitch) /\ SF_vars(SwLock) /\ WF_vars(SwPrepare)
    /\ WF_vars(SwSwitch) /\ WF_vars(SwSwitchEnd) /\ WF_vars(SwUnlock)
    /\ WF_vars(\E got \in {0, 1} : SwWaitTe(got)) /\ WF_vars(SwFinish)
    /\ WF_vars(KwPickGamma) /\ SF_vars(GwLock) /\ WF_vars(GwRead)
    /\ WF_vars(\E ok \in BOOLEAN : GwReadEnd(ok)) /\ WF_vars(GwUnlock)
    /\ WF_vars(AttrUnlockPanel)
    /\ WF_vars(PeGamma) /\ WF_vars(PeReplayEnd) /\ WF_vars(PeUnlock)

SpecSwitchFair == InitLocks /\ [][SwitchNext]_vars /\ SwitchFairness

ScaledBrightness ==
    mult_frac(mult_frac(out'.brightness, bl_scale, MAX_BL_SCALE_LEVEL),
              bl_scale_sv, MAX_SV_BL_SCALE_LEVEL)

\* this step is an update_status call that selected an HBM range
HbmSelection ==
    /\ out'.op \in {"update_status", "late_dpms"}
    /\ cfg.has_hbm /\ hbm_mode # HBM_MODE_OFF
    /\ out'.brightness > 0 /\ ScaledBrightness > 0

FittingRanges ==
    { i \in 0..(Len(Ranges(cfg)) - 1) :
          ScaledBrightness <= Ranges(cfg)[i + 1].user_bri_end }

UpdateCall == out'.op \in {"update_status", "late_dpms"}

\* the level the call computed or the state it runs with differs from
\* (bl_actual, last_state)
LevelOrStateDiffers == out'.bl_lvl # bl_actual \/ props_state' # last_state

\* a call that finds updates gated and a level or state to apply: it notes
\* the owed update, writes no brightness and keeps bl_actual and last_state
GatedCallDefers ==
    (UpdateCall /\ ~allow_bl_update /\ LevelOrStateDiffers)
        => /\ bl_update_pending'
           /\ BlWrites(out'.cmds) = 0
           /\ bl_actual' = bl_actual
           /\ last_state' = last_state

\* C21: a gated update_status with a level or state to apply sets
\* bl_update_pending, writes no brightness and keeps bl_actual and
\* last_state; the first update_status after updates become allowed
\* performs the write and clears bl_update_pending (checked for first calls
\* that still have a level or state to apply).
C21_GatedThenFirstCallWrites ==
    [][/\ GatedCallDefers
       /\ (UpdateCall /\ after_allow.fresh /\ bl_update_pending
               /\ LevelOrStateDiffers)
              => (BlWrites(out'.cmds) = 1 /\ ~bl_update_pending')]_vars

\* C21, amended: the gated half as stated; an allowed update_status clears
\* bl_update_pending exactly when its level or state differs from
\* (bl_actual, last_state), the panel is initialized and the writer succeeds;
\* it then stores the level and the state, and the DCS writer has written
\* the brightness iff the level differs from bl_actual.  Any other allowed
\* call leaves bl_update_pending as it was and completes no brightness write.
C21_GatedThenCatchUpWhenWritable ==
    [][/\ GatedCallDefers
       /\ (UpdateCall /\ allow_bl_update)
              => IF LevelOrStateDiffers /\ panel_initialized /\ out'.rc = 0
                 THEN /\ ~bl_update_pending'
                      /\ bl_actual' = out'.bl_lvl
                      /\ last_state' = props_state'
                      /\ cfg.update_bl = "dcs"
                             => BlWrites(out'.cmds) =
                                    (IF out'.bl_lvl # bl_actual THEN 1 ELSE 0)
                 ELSE /\ bl_update_pending' = bl_update_pending
                      /\ \A i \in 1..Len(out'.cmds) :
                             out'.cmds[i][1] # "set_display_brightness"]_vars

\* the first update_status after updates were allowed found an owed update,
\* wrote the brightness and cleared bl_update_pending
C21_Witness ==
    /\ after_allow.first_pending
    /\ out.op = "update_status" /\ out.path = "written"
    /\ BlWrites(out.cmds) = 1
    /\ ~bl_update_pending /\ bl_actual = out.bl_lvl

(***************************************************************************)
(* The loop of the dimming worker and the teardown of the HBM data.  The    *)
(* thread "dimming" is the worker of hbm->dimming_workq, the thread         *)
(* "panel" the caller that unregisters the backlight with panel_lock held.  *)
(***************************************************************************)
tdfrozen == << cfg, props_brightness, props_state, props_power, bl_actual, last_state, allow_bl_update, bl_update_pending, bl_scale, bl_scale_sv, panel_initialized, hbm_mode, crtc_attached, last_lp_mode, regulator_mode, backlight_dimmer, first_brightness_set, registered, last_dpms, out, prev_call, gmvars, dtvars, after_allow, lerp_io, irc_io, pdata, state_lock, swvars >>

\* queue_work(hbm->dimming_workq, &hbm->dimming_work)
queue_work(work) ==
    CASE work = "idle" -> "queued"
      [] work = "running" -> "requeued"
      [] OTHER -> work

\* the work function returned
work_done(work) == IF work = "requeued" THEN "queued" ELSE "idle"

\* dsi_backlight_update_status of an update in HBM mode that enters the
\* range that dims (thread "backlight"); the backlight device exists until
\* it is unregistered
UdLock ==
    /\ pc["backlight"] = "idle"
    /\ pc["panel"] = "idle"
    /\ AcquirePanel("backlight")
    /\ Goto("backlight", "ud_locked")
    /\ UNCHANGED << tdfrozen, dimvars, dimming_work, wrvars >>

\* dsi_backlight_hbm_dimming_start arms the controller and, unless it
\* returned early, queues the work
UdStart(get_ok) ==
    LET d0 == [hbm |-> hbm, refs |-> vblank_refs, cmds |-> << >>]
        d == dsi_backlight_hbm_dimming_start(d0, NumFrames, Len(HbmRanges),
                                             crtc_attached, get_ok)
    IN  /\ pc["backlight"] = "ud_locked"
        /\ hbm' = d.hbm
        /\ vblank_refs' = d.refs
        /\ dimming_work' = IF hbm.dimming_active \/ (crtc_attached /\ get_ok)
                           THEN queue_work(dimming_work) ELSE dimming_work
        /\ Goto("backlight", "ud_unlock")
        /\ UNCHANGED << tdfrozen, panel_lock, lock_order_ok, wrvars >>

UdUnlock ==
    /\ pc["backlight"] = "ud_unlock"
    /\ ReleasePanel("backlight")
    /\ Goto("backlight", "idle")
    /\ UNCHANGED << tdfrozen, dimvars, dimming_work, lock_order_ok, wrvars >>

\* the workqueue thread starts the queued work
DlPick ==
    /\ dimming_work = "queued"
    /\ pc["dimming"] = "idle"
    /\ dimming_work' = "running"
    /\ Goto("dimming", "dl_test")
    /\ UNCHANGED << tdfrozen, dimvars, panel_lock, lock_order_ok, wrvars >>

\* while (hbm->dimming_active)
DlTest ==
    /\ pc["dimming"] = "dl_test"
    /\ IF hbm.dimming_active
       THEN Goto("dimming", "dl_wait") /\ UNCHANGED dimming_work
       ELSE Goto("dimming", "idle") /\ dimming_work' = work_done(dimming_work)
    /\ UNCHANGED << tdfrozen, dimvars, panel_lock, lock_order_ok, wrvars >>

\* dsi_backlight_hbm_wait_frame returned (its result is drawn where it is
\* used, at DlFrame)
DlWaitFrame ==
    /\ pc["dimming"] = "dl_wait"
    /\ Goto("dimming", "dl_trylock")
    /\ UNCHANGED << tdfrozen, dimvars, dimming_work, panel_lock, lock_order_ok,
                    wrvars >>

\* mutex_lock in place of the trylock: the worker waits for panel_lock
DlLockBlocking ==
    /\ pc["dimming"] = "dl_trylock"
    /\ AcquirePanel("dimming")
    /\ Goto("dimming", "dl_locked")
    /\ UNCHANGED << tdfrozen, dimvars, dimming_work, wrvars >>

\* if (!mutex_trylock(&panel->panel_lock)) { usleep_range(); continue; }
DlTrylock ==
    /\ pc["dimming"] = "dl_trylock"
    /\ IF panel_lock = NoOwner
       THEN AcquirePanel("dimming") /\ Goto("dimming", "dl_locked")
       ELSE Goto("dimming", "dl_test") /\ UNCHANGED << panel_lock, lock_order_ok >>
    /\ UNCHANGED << tdfrozen, dimvars, dimming_work, wrvars >>

\* under the lock: leave when dimming was stopped meanwhile, else count the
\* frame and stop dimming at 0; wait_ok: the wait for the frame succeeded
DlFrame(wait_ok) ==
    LET left == IF ~wait_ok THEN 0
                ELSE IF hbm.dimming_frames_left > 0
                THEN hbm.dimming_frames_left - 1
                ELSE hbm.dimming_frames_left
        d0 == [hbm |-> [hbm EXCEPT !.dimming_frames_left = left],
               refs |-> vblank_refs, cmds |-> << >>]
        d == IF left = 0 THEN dsi_backlight_hbm_dimming_stop(d0, crtc_attached)
             ELSE d0
    IN  /\ pc["dimming"] = "dl_locked"
        /\ IF hbm.dimming_active
           THEN /\ hbm' = d.hbm
                /\ vblank_refs' = d.refs
                /\ IF d.cmds # << >> THEN Transfer("dimming", TRUE, TRUE)
                   ELSE UNCHANGED wrvars
                /\ Goto("dimming", "dl_unlock")
           ELSE /\ UNCHANGED << dimvars, wrvars >>
                /\ Goto("dimming", "dl_break")
        /\ UNCHANGED << tdfrozen, dimming_work, panel_lock, lock_order_ok >>

\* mutex_unlock: at the end of the iteration, or before the break
DlUnlock ==
    /\ pc["dimming"] \in {"dl_unlock", "dl_break"}
    /\ ReleasePanel("dimming")
    /\ IF pc["dimming"] = "dl_unlock"
       THEN Goto("dimming", "dl_test") /\ UNCHANGED dimming_work
       ELSE Goto("dimming", "idle") /\ dimming_work' = work_done(dimming_work)
    /\ UNCHANGED << tdfrozen, dimvars, lock_order_ok, wrvars >>

\* the caller of dsi_panel_bl_unregister takes panel_lock
TdLock ==
    /\ pc["panel"] = "idle"
    /\ AcquirePanel("panel")
    /\ Goto("panel", "td_locked")
    /\ UNCHANGED << tdfrozen, dimvars, dimming_work, wrvars >>

\* dsi_panel_bl_hbm_free: dsi_backlight_hbm_dimming_stop
TdStop ==
    LET d == dsi_backlight_hbm_dimming_stop(
                 [hbm |-> hbm, refs |-> vblank_refs, cmds |-> << >>],
                 crtc_attached)
    IN  /\ pc["panel"] = "td_locked"
        /\ hbm' = d.hbm
        /\ vblank_refs' = d.refs
        /\ IF d.cmds # << >> THEN Transfer("panel", TRUE, TRUE)
           ELSE UNCHANGED wrvars
        /\ Goto("panel", "td_flush")
        /\ UNCHANGED << tdfrozen, dimming_work, panel_lock, lock_order_ok >>

\* flush_workqueue(hbm->dimming_workq) returns once the work is neither
\* queued nor running; destroy_workqueue and the frees follow
TdFlush ==
    /\ pc["panel"] = "td_flush"
    /\ dimming_work = "idle"
    /\ Goto("panel", "td_flushed")
    /\ UNCHANGED << tdfrozen, dimvars, dimming_work, panel_lock, lock_order_ok,
                    wrvars >>

TdUnlock ==
    /\ pc["panel"] = "td_flushed"
    /\ ReleasePanel("panel")
    /\ Goto("panel", "td_done")
    /\ UNCHANGED << tdfrozen, dimvars, dimming_work, lock_order_ok, wrvars >>

TeardownNext ==
    \/ UdLock
    \/ \E get_ok \in BOOLEAN : UdStart(get_ok)
    \/ UdUnlock
    \/ DlPick \/ DlTest \/ DlWaitFrame \/ DlTrylock
    \/ \E wait_ok \in BOOLEAN : DlFrame(wait_ok)
    \/ DlUnlock
    \/ TdLock \/ TdStop \/ TdFlush \/ TdUnlock

\* Scheduling: the workqueue thread and the unregistering thread take their
\* next step when they can (the wait for a frame and the sleep after a failed
\* trylock are bounded).  Nothing obliges an update to start dimming or the
\* driver to unregister.
TeardownFairness ==
    /\ WF_vars(DlPick) /\ WF_vars(DlTest) /\ WF_vars(DlWaitFrame)
    /\ WF_vars(DlTrylock) /\ WF_vars(\E wait_ok \in BOOLEAN : DlFrame(wait_ok))
    /\ WF_vars(DlUnlock)
    /\ WF_vars(TdStop) /\ WF_vars(TdFlush) /\ WF_vars(TdUnlock)
    /\ WF_vars(\E get_ok \in BOOLEAN : UdStart(get_ok)) /\ WF_vars(UdUnlock)

SpecTeardownFair == InitLocks /\ [][TeardownNext]_vars /\ TeardownFairness

\* C22: the dimming worker never waits for panel_lock (its attempt to take
\* it always ends, with the lock or back at the loop test), so a teardown
\* that holds panel_lock, stops dimming and flushes the dimming workqueue
\* always finishes, and when the flush returns the worker has left its loop.
C22_TeardownTerminates ==
    /\ (pc["dimming"] = "dl_trylock") ~> (pc["dimming"] # "dl_trylock")
    /\ (pc["panel"] = "td_locked") ~> (pc["panel"] = "td_done")
    /\ [](pc["panel"] \in {"td_flushed", "td_done"}
             => (pc["dimming"] = "idle" /\ dimming_work = "idle"
                 /\ ~hbm.dimming_active))

\* the flush returned although the worker was inside its loop, past its wait
\* for a frame, when the teardown took panel_lock and stopped dimming
C22_Witness ==
    /\ pc["panel"] = "td_flushed"
    /\ panel_lock = "panel"
    /\ dimming_work = "idle" /\ pc["dimming"] = "idle"
    /\ last_write.by = "panel"

(***************************************************************************)
(* Brightness 0.                                                           *)
(***************************************************************************)
\* inputs of dsi_backlight_calculate beyond those the handlers pass
ZeroOrLess == {-2, -1, 0}

ScaleInputs == {0, MAX_BL_SCALE_LEVEL, 2 * MAX_BL_SCALE_LEVEL}

ScaleSvInputs == {0, 1, MAX_SV_BL_SCALE_LEVEL}

\* in the current state of the backlight dsi_backlight_calculate maps every
\* brightness <= 0 to level 0 and leaves the HBM data and the panel alone
CalculateOfZeroIsZero ==
    LET d0 == [hbm |-> hbm, refs |-> vblank_refs, cmds |-> << >>]
    IN  \A b \in ZeroOrLess, scale \in ScaleInputs, sv \in ScaleSvInputs,
           mode \in {HBM_MODE_OFF, HBM_MODE_ON}, dimmer \in BOOLEAN,
           e \in Env(cfg) :
            dsi_backlight_calculate(cfg, d0, dimmer, bl_actual, crtc_attached,
                                    scale, sv, mode, b, e)
                = [bl_lvl |-> 0, d |-> d0]

\* the update_status call of this step ran with the display blanked,
\* suspended or not powered
BlankedCall ==
    /\ UpdateCall
    /\ \/ props_state' \cap {FBBLANK, SUSPENDED} # {}
       \/ props_power' # FB_BLANK_UNBLANK

\* C23: dsi_backlight_calculate returns 0 for every brightness <= 0 whatever
\* the scales, the HBM mode, the LUT and the ranges are, without changing
\* cur_range, starting dimming or sending a command; so update_status
\* computes level 0 whenever the state has FBBLANK or SUSPENDED or the power
\* is not UNBLANK.
C23_ZeroBrightnessIsLevelZero ==
    /\ []CalculateOfZeroIsZero
    /\ [][BlankedCall
          => /\ out'.brightness = 0 /\ out'.bl_lvl = 0
             /\ hbm'.cur_range = hbm.cur_range
             /\ hbm'.dimming_active = hbm.dimming_active
             /\ vblank_refs' = vblank_refs
             /\ \A i \in 1..Len(out'.cmds) :
                    out'.cmds[i][1] \notin {"hbm_entry", "hbm_entry_failed"}]_vars

\* a blanked update in HBM mode with a positive props.brightness and a
\* range entered before: level 0 was computed and written
C23_Witness ==
    /\ out.op = "late_dpms" /\ FBBLANK \in props_state
    /\ hbm_mode = HBM_MODE_ON /\ hbm.cur_range # HBM_RANGE_MAX
    /\ props_brightness > 0
    /\ out.brightness = 0 /\ out.bl_lvl = 0 /\ out.path = "written"
    /\ BlWrites(out.cmds) = 1

(***************************************************************************)
(* Linear interpolation.                                                   *)
(***************************************************************************)
\* u16 arguments: small ones, and ones whose differences multiply to more
\* than an int holds
LerpInputs == {0, 1, 2, 4, 50000, 65535}

\* a caller passes five u16 values to dsi_backlight_lerp
LerpCall(a) ==
    LET l == dsi_backlight_lerp(a.x1, a.x2, a.y1, a.y2, a.x)
    IN  /\ ~lerp_io.returned
        /\ lerp_io' = [x1 |-> a.x1, x2 |-> a.x2, y1 |-> a.y1, y2 |-> a.y2,
                       x |-> a.x, returned |-> TRUE, rc |-> l.rc, y |-> l.y]
        /\ UNCHANGED << blvars, lkvars, gmvars, dtvars, after_allow,
                        dimming_work, irc_io, pdata >>

LerpNext ==
    /\ ~lerp_io.returned
    /\ \E a \in [x1 : LerpInputs, x2 : LerpInputs, y1 : LerpInputs,
                  y2 : LerpInputs, x : LerpInputs] : LerpCall(a)

InitLerp == BlInit({BaseCfg}) /\ LkInit /\ GmInit({DefaultModes}) /\ DtInit /\ AuxInit

SpecLerp == InitLerp /\ [][LerpNext]_vars

\* quotient and remainder of n * m by d, for n, m, d in 0..65535 and d > 0,
\* by doubling
RECURSIVE MulDiv(_, _, _)
MulDiv(n, m, d) ==
    IF n = 0 THEN [q |-> 0, r |-> 0]
    ELSE LET h == MulDiv(n \div 2, m, d)
             r2 == 2 * h.r + (IF n % 2 = 1 THEN m % d ELSE 0)
             q2 == 2 * h.q + (IF n % 2 = 1 THEN m \div d ELSE 0)
         IN  [q |-> q2 + r2 \div d, r |-> r2 % d]

\* y is an integer nearest to y1 + (x - x1)(y2 - y1)/(x2 - x1)
NearestInterpolation(a, y) ==
    LET f == MulDiv(a.x - a.x1, a.y2 - a.y1, a.x2 - a.x1)
    IN  \/ y = a.y1 + f.q /\ 2 * f.r <= a.x2 - a.x1
        \/ y = a.y1 + f.q + 1 /\ 2 * f.r >= a.x2 - a.x1

\* C24: dsi_backlight_lerp fails with -EINVAL iff x2 < x1 or y2 < y1;
\* otherwise it yields y1 when x <= x1 or x2 = x1, y2 when x >= x2 and the
\* nearest integer to y1 + (x - x1)(y2 - y1)/(x2 - x1) in between, so the
\* result lies in [y1, y2] and does not decrease when x grows.
C24_LerpContract ==
    lerp_io.returned =>
        LET a == lerp_io
        IN  /\ a.rc \in {0, EINVAL}
            /\ (a.rc = EINVAL) <=> (a.x2 < a.x1 \/ a.y2 < a.y1)
            /\ a.rc = 0 =>
                  /\ (a.x <= a.x1 \/ a.x2 = a.x1) => a.y = a.y1
                  /\ (a.x >= a.x2 /\ a.x > a.x1 /\ a.x2 # a.x1) => a.y = a.y2
                  /\ (a.x1 < a.x /\ a.x < a.x2) => NearestInterpolation(a, a.y)
                  /\ a.y1 <= a.y /\ a.y <= a.y2
                  /\ \A x \in LerpInputs :
                         x <= a.x =>
                             LET b == dsi_backlight_lerp(a.x1, a.x2, a.y1,
                                                         a.y2, x).y
                             IN  0 <= b /\ b <= a.y

(***************************************************************************)
(* dimming_start while dimming is active.                                  *)
(***************************************************************************)
\* the update_status call of this step called dsi_backlight_hbm_dimming_start
\* (it changed the range) while dimming was active
StartWhileActive ==
    /\ UpdateCall
    /\ hbm.dimming_active
    /\ hbm'.cur_range # hbm.cur_range

\* the range that call entered
EnteredRange == Ranges(cfg)[hbm'.cur_range + 1]

\* C25: dimming_start called while dimming is active takes no vblank
\* reference and changes nothing but dimming_frames_left, which it resets to
\* dimming_frames_total; dimming_frames_total and the recorded stop command
\* keep their values.
C25_ActiveStartOnlyRefreshes ==
    [][StartWhileActive
       => /\ vblank_refs' = vblank_refs
          /\ hbm'.dimming_active
          /\ hbm'.dimming_frames_total = hbm.dimming_frames_total
          /\ hbm'.dimming_stop_cmd = hbm.dimming_stop_cmd
          /\ hbm'.dimming_frames_left = hbm.dimming_frames_total]_vars

\* C25, amended: dimming_start called while dimming is active takes no
\* vblank reference; with num_frames = 0 it changes nothing (frames_left is
\* refreshed only if the update goes on to dsi_backlight_hbm_dimming_restart);
\* with num_frames > 0 it sets dimming_frames_total and dimming_frames_left
\* to num_frames and records the stop command of the call.
C25_ActiveStartTakesCallsValues ==
    [][StartWhileActive
       => /\ vblank_refs' = vblank_refs
          /\ hbm'.dimming_active
          /\ IF EnteredRange.num_dimming_frames = 0
             THEN /\ hbm'.dimming_frames_total = hbm.dimming_frames_total
                  /\ hbm'.dimming_stop_cmd = hbm.dimming_stop_cmd
                  /\ hbm'.dimming_frames_left =
                         (IF out'.path \in {"noop", "gated"}
                          THEN hbm.dimming_frames_left
                          ELSE hbm.dimming_frames_total)
             ELSE /\ hbm'.dimming_frames_total = EnteredRange.num_dimming_frames
                  /\ hbm'.dimming_frames_left = EnteredRange.num_dimming_frames
                  /\ hbm'.dimming_stop_cmd = hbm'.cur_range + 1]_vars

\* the panel dims for the frames of its second range after it changed to
\* that range while it was dimming for the first
C25_Witness ==
    /\ cfg.name = "dcs-hbm-dimming"
    /\ out.op = "update_status" /\ hbm.cur_range = 1
    /\ hbm.dimming_active /\ vblank_refs = 1
    /\ hbm.dimming_frames_total = NumFrames
    /\ hbm.dimming_stop_cmd = 2
    /\ \E i \in 1..Len(out.cmds) : out.cmds[i] = <<"hbm_entry", 1>>
    /\ prev_call.valid

(***************************************************************************)
(* Leaving LP on a binned-LP panel.                                        *)
(***************************************************************************)
\* the update_status call of this step reached the writer, which selected no
\* bin after a bin had been active
BinBecomesNone ==
    /\ UpdateCall
    /\ cfg.update_bl = "binned"
    /\ last_lp_mode # NULLP /\ last_lp_mode' = NULLP

\* C26: when the selected bin becomes none after a bin was active, bl_actual
\* is invalidated, so that update emits exactly one DCS brightness write even
\* if the computed level equals the bl_actual from before, and bl_actual then
\* holds the computed level.
C26_WriteAfterLeavingLp ==
    [][BinBecomesNone
       => /\ BlWrites(out'.cmds) = 1
          /\ bl_actual' = out'.bl_lvl]_vars

\* C26, amended: when the selected bin becomes none after a bin was active,
\* bl_actual is invalidated, so that update attempts exactly one DCS
\* brightness write even if the computed level equals the bl_actual from
\* before; bl_actual then holds the computed level if the write succeeded
\* and stays invalid (0xFFFFFFFF) if it failed.
C26_WriteAfterLeavingLpUnlessFailed ==
    [][BinBecomesNone
       => /\ BlWrites(out'.cmds) = 1
          /\ IF out'.rc = 0
             THEN /\ out'.cmds[Len(out'.cmds)][1] = "set_display_brightness"
                  /\ bl_actual' = out'.bl_lvl
             ELSE /\ out'.cmds[Len(out'.cmds)][1] = "set_display_brightness_failed"
                  /\ bl_actual' = BL_ACTUAL_INVALID]_vars

\* the panel came back from LP to ON and wrote the level it had computed
\* while it was in LP
C26_Witness ==
    /\ cfg.update_bl = "binned"
    /\ out.op = "late_dpms" /\ out.arg = SDE_MODE_DPMS_ON
    /\ out.prev_dpms \in {SDE_MODE_DPMS_LP1, SDE_MODE_DPMS_LP2}
    /\ is_lp_mode(out.before) /\ props_state = {}
    /\ last_lp_mode = NULLP
    /\ out.path = "written" /\ BlWrites(out.cmds) = 1
    /\ out.bl_lvl > 0 /\ bl_actual = out.bl_lvl

(***************************************************************************)
(* The IRC toggle.                                                         *)
(***************************************************************************)
EOPNOTSUPP == -95
BITS_PER_BYTE == 8

RECURSIVE BIT(_)
BIT(n) == IF n = 0 THEN 1 ELSE 2 * BIT(n - 1)

\* byte | mask and byte & ~mask for a mask of one bit
OrBit(byte, mask) == IF (byte \div mask) % 2 = 1 THEN byte ELSE byte + mask
AndNotBit(byte, mask) == IF (byte \div mask) % 2 = 1 THEN byte - mask ELSE byte

\* kzalloc(size): size bytes of zero
Zeroed(size) == [i \in 1..size |-> 0]

\* mipi_dsi_dcs_read into buf: rc > 0 bytes of the register arrive, a
\* return of 0 or less leaves buf as it was
DcsReadInto(buf, reg, rc) ==
    [i \in 1..Len(buf) |-> IF i <= rc /\ i <= Len(reg) THEN reg[i] ELSE buf[i]]

\* the registers of the panel at irc_addr, one or two bytes of them
IrcRegs == {<<40, 0>>, <<255, 255>>}
IrcBitOffsets == {0, 5, 9}
IrcAddrs == {0, 184}

\* what the calls of one dsi_panel_bl_update_irc return: kzalloc, the count
\* or the error of mipi_dsi_dcs_read, the register, mipi_dsi_dcs_write
IrcEnv == [alloc_ok : BOOLEAN, read_rc : {EIO, 0, 1, 2}, reg : IrcRegs,
           write_rc : {0, EIO}]

\* dsi_panel_bl_update_irc(bl, enable) on hbm data h = [addr, bit_offset,
\* data]: the value returned, the commands sent, and hbm->irc_data after it
dsi_panel_bl_update_irc(h, enable, e) ==
    LET byte_offset == h.bit_offset \div BITS_PER_BYTE
        bit_mask == BIT(h.bit_offset % BITS_PER_BYTE)
        irc_data_size == byte_offset + 1
        unlock == << <<"irc_unlock_cmd">> >>
        lock == << <<"irc_lock_cmd">> >>
        rd == << <<"dcs_read", h.addr, irc_data_size>> >>
        fresh == DcsReadInto(Zeroed(irc_data_size), e.reg, e.read_rc)
        bytes == IF h.data.cached THEN h.data.bytes ELSE fresh
        toggled == [bytes EXCEPT ![byte_offset + 1] =
                        IF enable THEN OrBit(@, bit_mask)
                        ELSE AndNotBit(@, bit_mask)]
        wr == << <<"dcs_write", h.addr, toggled>> >>
    IN  IF h.addr = 0
        THEN [rc |-> EOPNOTSUPP, cmds |-> << >>, data |-> h.data,
              read |-> FALSE]
        ELSE IF ~h.data.cached /\ ~e.alloc_ok
        THEN [rc |-> 0, cmds |-> unlock \o lock, data |-> h.data,
              read |-> FALSE]
        ELSE IF ~h.data.cached /\ e.read_rc # irc_data_size
        THEN [rc |-> e.read_rc, cmds |-> unlock \o rd \o lock,
              data |-> [cached |-> TRUE, bytes |-> fresh], read |-> TRUE]
        ELSE [rc |-> e.write_rc,
              cmds |-> unlock \o (IF h.data.cached THEN << >> ELSE rd)
                       \o wr \o lock,
              data |-> [cached |-> TRUE, bytes |-> toggled],
              read |-> ~h.data.cached]

\* a caller toggles IRC
UpdateIrc(enable, e) ==
    LET r == dsi_panel_bl_update_irc(irc_io, enable, e)
    IN  /\ irc_io' = [irc_io EXCEPT
                        !.data = r.data,
                        !.out = [called |-> TRUE, enable |-> enable,
                                 read |-> r.read, read_rc |-> e.read_rc,
                                 rc |-> r.rc, cmds |-> r.cmds]]
        /\ UNCHANGED << blvars, lkvars, gmvars, dtvars, after_allow,
                        dimming_work, lerp_io, pdata >>

IrcNext == \E enable \in BOOLEAN, e \in IrcEnv : UpdateIrc(enable, e)

\* google,dsi-irc-addr and google,dsi-irc-bit-offset as parsed; irc_addr 0
\* is a panel without IRC
InitIrc ==
    /\ BlInit({BaseCfg}) /\ LkInit /\ GmInit({DefaultModes}) /\ DtInit
    /\ after_allow = [fresh |-> FALSE, first_pending |-> FALSE]
    /\ dimming_work = "idle"
    /\ lerp_io = NoLerp
    /\ pdata = NoPdata
    /\ irc_io \in [addr : IrcAddrs, bit_offset : IrcBitOffsets,
                   data : {NoIrcData}, out : {NoIrcOut}]

SpecIrc == InitIrc /\ [][IrcNext]_vars

IrcWrites(cmds) == Cardinality({i \in 1..Len(cmds) : cmds[i][1] = "dcs_write"})

\* the call sent irc_unlock_cmd first and irc_lock_cmd last
IrcBracketed ==
    (irc_io.out.called /\ irc_io.addr # 0)
        => /\ Len(irc_io.out.cmds) >= 2
           /\ irc_io.out.cmds[1] = <<"irc_unlock_cmd">>
           /\ irc_io.out.cmds[Len(irc_io.out.cmds)] = <<"irc_lock_cmd">>

\* the call read the register and did not get irc_data_size bytes
IrcReadFailed ==
    /\ irc_io.out.called /\ irc_io.out.read
    /\ irc_io.out.read_rc # (irc_io.bit_offset \div BITS_PER_BYTE) + 1

\* a call whose read failed wrote nothing back
IrcFailedReadAborts == IrcReadFailed => IrcWrites(irc_io.out.cmds) = 0

\* C27: every update_irc call on a panel with IRC configured sends
\* irc_unlock_cmd first and irc_lock_cmd last, and a call whose read of the
\* register failed or came short writes no IRC data back and returns an
\* error
C27_IrcBracketedAndFailedReadIsError ==
    /\ IrcBracketed
    /\ IrcFailedReadAborts
    /\ IrcReadFailed => irc_io.out.rc # 0

\* the same with a read of no bytes left out of the failed reads
C27_ExceptReadOfNothing ==
    /\ IrcBracketed
    /\ IrcFailedReadAborts
    /\ (IrcReadFailed /\ irc_io.out.read_rc # 0) => irc_io.out.rc # 0

\* a call on a panel with IRC whose read came back with no bytes
C27_Witness ==
    /\ irc_io.addr # 0
    /\ IrcReadFailed /\ irc_io.out.read_rc = 0
    /\ irc_io.out.cmds = << <<"irc_unlock_cmd">>,
                            <<"dcs_read", irc_io.addr,
                              (irc_io.bit_offset \div BITS_PER_BYTE) + 1>>,
                            <<"irc_lock_cmd">> >>

(***************************************************************************)
(* Refresh-rate switches of a panel whose backlight is in HBM or dimming.  *)
(***************************************************************************)
SwitchHbmNext ==
    \/ \E b \in 0..MaxBri, e \in Env(cfg) :
           UpdateStatus(b, e) /\ UNCHANGED << lkvars, sidevars >>
    \/ \E wait_ok \in BOOLEAN :
           DimmingWork(wait_ok) /\ UNCHANGED << lkvars, sidevars >>
    \/ \E v \in cfg.gates :
           SetAllowBlUpdate(v) /\ UNCHANGED << lkvars, sidevars >>
    \/ \E v \in cfg.gates :
           SetPanelInitialized(v) /\ UNCHANGED << lkvars, sidevars >>
    \/ \E m \in {HBM_MODE_OFF, HBM_MODE_ON} :
           SetHbmMode(m) /\ UNCHANGED << lkvars, sidevars >>
    \/ \E m \in Modes, unlock_ok \in BOOLEAN, ok \in UniformTransfers :
           PerformSwitch(m, unlock_ok, ok)

SpecSwitchHbm == InitDimming /\ [][SwitchHbmNext]_vars

\* every bit of mask is set in the byte v; mask is a run of bits
HasBits(v, mask) ==
    LET low == CHOOSE b \in {1, 2, 4, 8, 16, 32, 64, 128} :
                   mask % b = 0 /\ (mask \div b) % 2 = 1
    IN  (v \div low) % (mask \div low + 1) = mask \div low

\* the step is a switch whose unlock command went through
SwitchStep ==
    /\ pout'.op = "perform_switch"
    /\ << wire, pout, cur_mode >>' # << wire, pout, cur_mode >>
    /\ Len(wire') >= 2

\* the byte the switch wrote to WRCTRLD
SwitchWrctrld == wire'[2].tx[2]

\* the switch wrote BCTRL, and the frame-rate bit for 90 Hz only
SwitchWritesRateBits ==
    [][SwitchStep
       => /\ wire'[2].tx[1] = MIPI_DCS_WRITE_CONTROL_DISPLAY
          /\ Len(wire'[2].tx) = 2
          /\ HasBits(SwitchWrctrld, S6E3HC2_WRCTRLD_BCTRL_BIT)
          /\ HasBits(SwitchWrctrld, S6E3HC2_WRCTRLD_FRAME_RATE_BIT)
                <=> pout'.arg = 90]_vars

\* C28: the WRCTRLD value a refresh-rate switch writes has BCTRL set, the
\* frame-rate bit set iff the target mode is 90 Hz, the HBM bits set iff HBM
\* is enabled and the dimming bit set iff dimming is active
C28_SwitchKeepsHbmAndDimmingBits ==
    [][SwitchStep
       => /\ wire'[2].tx[1] = MIPI_DCS_WRITE_CONTROL_DISPLAY
          /\ HasBits(SwitchWrctrld, S6E3HC2_WRCTRLD_BCTRL_BIT)
          /\ HasBits(SwitchWrctrld, S6E3HC2_WRCTRLD_FRAME_RATE_BIT)
                <=> pout'.arg = 90
          /\ HasBits(SwitchWrctrld, S6E3HC2_WRCTRLD_HBM_BIT)
                <=> hbm_mode # HBM_MODE_OFF
          /\ HasBits(SwitchWrctrld, S6E3HC2_WRCTRLD_DIMMING_BIT)
                <=> hbm.dimming_active]_vars

\* a switch to 90 Hz was performed while HBM was on and dimming was active
C28_Witness ==
    /\ pout.op = "perform_switch" /\ pout.arg = 90
    /\ Len(wire) >= 2
    /\ hbm_mode = HBM_MODE_ON /\ hbm.dimming_active

(***************************************************************************)
(* The gamma replay of a switch and of post_enable.                        *)
(***************************************************************************)
\* the messages of s6e3hc2_gamma_update among those of the last operation
GammaReplay ==
    IF pout.op = "perform_switch" /\ Len(wire) > 3
    THEN SubSeq(wire, 3, Len(wire) - 1)
    ELSE IF pout.op = "post_enable" /\ Len(wire) > 2
    THEN SubSeq(wire, 2, Len(wire) - 1)
    ELSE << >>

\* one write per descriptor, in the order of s6e3hc2_gamma_tables, of the
\* stored buffer of len + 1 bytes
ReplayInDeclaredOrder ==
    GammaReplay # << >> =>
        /\ Len(GammaReplay) = S6E3HC2_NUM_GAMMA_TABLES
        /\ \A i \in 1..S6E3HC2_NUM_GAMMA_TABLES :
              /\ GammaReplay[i].kind = "write"
              /\ GammaReplay[i].tx = gamma_data[pout.arg][i]
              /\ Len(GammaReplay[i].tx) = s6e3hc2_gamma_tables[i].len + 1

\* the first byte of every write is the command of its descriptor
ReplayStartsWithCmd ==
    \A i \in 1..Len(GammaReplay) :
        GammaReplay[i].tx[1] = s6e3hc2_gamma_tables[i].cmd

\* send_last is false for the descriptors grouped with the next one only
ReplaySendLast ==
    \A i \in 1..Len(GammaReplay) :
        GammaReplay[i].last = ~s6e3hc2_gamma_tables[i].cmd_group_with_next

\* every write without send_last is followed by one with it
ReplayGroupsEnd ==
    \A i \in 1..Len(GammaReplay) :
        ~GammaReplay[i].last
            => \E j \in (i + 1)..Len(GammaReplay) : GammaReplay[j].last

ReadRan == pout.op = "read_tables" /\ ~pout.was_ready

KnownRates == {60, 90}
HasMode(rate) == \E i \in 1..Len(modes) : modes[i] = rate

\* a write between the unlock and the lock command failed: the flash read
FlashReadFailed ==
    \E i \in 2..(Len(wire) - 1) : wire[i].kind = "write" /\ ~wire[i].ok

\* every table of the 60 Hz mode was read from its register and the flash
\* was read to the end and left
EveryModeRead ==
    /\ \A i \in 1..Len(modes) :
          modes[i] \in KnownRates /\ pout.read[modes[i]] # NoBufs
    /\ \A t \in 1..S6E3HC2_NUM_GAMMA_TABLES :
          \E i \in 2..(Len(wire) - 1) :
              /\ wire[i].kind = "read"
              /\ wire[i].tx = << s6e3hc2_gamma_tables[t].cmd >>
    /\ \E i \in 2..(Len(wire) - 1) : wire[i].tx = flash_mode_dis
    /\ ~FlashReadFailed

\* the prefix bytes of the 90 Hz buffers are those of the 60 Hz buffers
PrefixBytesCopied ==
    /\ HasMode(60) /\ HasMode(90)
    /\ \A t \in 1..S6E3HC2_NUM_GAMMA_TABLES :
          \A k \in 2..(s6e3hc2_gamma_tables[t].prefix_len + 1) :
              gamma_data[90][t][k] = gamma_data[60][t][k]

\* the unlock command went through and the lock command was sent last
LockedAgain ==
    /\ Len(wire) >= 2
    /\ wire[Len(wire)].kind = "write" /\ wire[Len(wire)].tx = lock_cmd
    /\ \A i \in 2..(Len(wire) - 1) : wire[i].tx # lock_cmd

\* one of the error paths: a mode with an unknown refresh rate, a failed
\* flash read, no 60 Hz or no 90 Hz mode
ReadErrorPath ==
    \/ \E i \in 1..Len(modes) : modes[i] \notin KnownRates
    \/ FlashReadFailed
    \/ ~HasMode(60)
    \/ ~HasMode(90)

\* C30: read_tables sets gamma_ready only after every mode has been read
\* and the prefixes have been merged; once its unlock command was sent it
\* sends the lock command last, on success and on every error path, and on
\* an error path gamma_ready stays false
C30_LockOnEveryPathReadyOnSuccess ==
    ReadRan =>
        /\ wire[1].tx = unlock_cmd
        /\ wire[1].ok <=> LockedAgain
        /\ gamma_ready => (wire[1].ok /\ EveryModeRead /\ PrefixBytesCopied)
        /\ (wire[1].ok /\ ReadErrorPath)
              => (~gamma_ready /\ pout.rc # 0 /\ LockedAgain)

\* a read whose flash read failed half way, locked again and not ready
C30_Witness ==
    /\ ReadRan /\ wire[1].ok
    /\ FlashReadFailed /\ pout.rc = EFAULT
    /\ pout.read[60] # NoBufs
    /\ LockedAgain /\ wire[Len(wire)].ok
    /\ ~gamma_ready

(***************************************************************************)
(* The panel switch with its callers on two threads: "commit" runs          *)
(* panel_switch, panel_idle and panel_wakeup, "attr" the debugfs and sysfs   *)
(* handlers, "kworker" the switch worker.  A third mode has the refresh      *)
(* rate of the first.  kthread_flush_work is taken to return when the work   *)
(* is neither queued nor running.                                            *)
(***************************************************************************)
SwitchModes == {1, 2, 3}
RefreshRate(m) == IF m = 2 THEN 90 ELSE 60

is_display_mode_same(m1, m2) ==
    m1 # 0 /\ m2 # 0 /\ RefreshRate(m1) = RefreshRate(m2)

mdfrozen == << blvars, gmvars, dtvars, after_allow, dimming_work, lerp_io, irc_io, state_lock, gamma_work, gamma_ready, burst, last_write, lock_order_ok >>

\* panel_switch_to_mode(pdata, mode) with panel_lock held by thread t:
\* perform_switch, then switch_pending is cleared
panel_switch_to_mode(t, mode) ==
    /\ switch_pending' = FALSE
    /\ pdata' = [pdata EXCEPT
                   !.panel_mode = mode,
                   !.unsent = IF @ = mode THEN 0 ELSE @,
                   !.log = IF t = "kworker" THEN Append(@, "switch") ELSE @,
                   !.last_req = IF t = "commit" THEN mode ELSE @,
                   !.idle_switch =
                       IF t = "commit"
                       THEN [done |-> TRUE, wanted |-> TRUE,
                             locked |-> panel_lock = t]
                       ELSE @]

\* panel_idle that leaves the switch to the worker
MiSwitchQueued ==
    /\ pc["commit"] = "mi_locked"
    /\ IF pdata.idle_mode # 0
          /\ ~is_display_mode_same(pdata.idle_mode, cur_mode)
       THEN /\ display_mode' = pdata.idle_mode
            /\ switch_pending' = TRUE
            /\ switch_work' = queue_work(switch_work)
            /\ pdata' = [pdata EXCEPT
                           !.last_req = pdata.idle_mode,
                           !.idle_switch = [done |-> FALSE, wanted |-> TRUE,
                                            locked |-> FALSE]]
       ELSE /\ pdata' = [pdata EXCEPT
                           !.idle_switch = [done |-> FALSE, wanted |-> FALSE,
                                            locked |-> FALSE]]
            /\ UNCHANGED << display_mode, switch_pending, switch_work >>
    /\ Goto("commit", "mi_unlock")
    /\ UNCHANGED << mdfrozen, panel_lock, cur_mode, te >>

\* panel_switch: the commit has set panel->cur_mode to m
MsPanelSwitch(m) ==
    /\ pc["commit"] = "idle"
    /\ cur_mode' = m
    /\ pdata' = [pdata EXCEPT !.new_mode["commit"] = m, !.phase = "none"]
    /\ Goto("commit", "mq_flush")
    /\ UNCHANGED << mdfrozen, panel_lock, switch_work, display_mode,
                    switch_pending, te >>

\* debugfs_panel_switch_mode_write of mode m
MsDebugfs(m) ==
    /\ pc["attr"] = "idle"
    /\ pdata' = [pdata EXCEPT !.new_mode["attr"] = m, !.phase = "none"]
    /\ Goto("attr", "mq_flush")
    /\ UNCHANGED << mdfrozen, panel_lock, switch_work, display_mode, cur_mode,
                    switch_pending, te >>

\* panel_queue_switch: kthread_flush_work
MqFlush(t) ==
    /\ pc[t] = "mq_flush"
    /\ switch_work = "idle"
    /\ Goto(t, "mq_lock")
    /\ pdata' = IF t = "attr" THEN [pdata EXCEPT !.phase = "none"] ELSE pdata
    /\ UNCHANGED << mdfrozen, panel_lock, switch_work, display_mode, cur_mode,
                    switch_pending, te >>

\* panel_queue_switch: display_mode and switch_pending are set under
\* panel_lock
MqSet(t) ==
    /\ pc[t] = "mq_lock"
    /\ panel_lock = NoOwner
    /\ display_mode' = pdata.new_mode[t]
    /\ switch_pending' = TRUE
    /\ pdata' = [pdata EXCEPT
                   !.unsent = pdata.new_mode[t],
                   !.last_req = pdata.new_mode[t],
                   !.phase = IF t = "attr" THEN "none" ELSE @]
    /\ Goto(t, "mq_queue")
    /\ UNCHANGED << mdfrozen, panel_lock, switch_work, cur_mode, te >>

\* panel_queue_switch: kthread_queue_work
MqQueue(t) ==
    /\ pc[t] = "mq_queue"
    /\ switch_work' = queue_work(switch_work)
    /\ pdata' = [pdata EXCEPT
                   !.phase = IF t = "commit" /\ @ = "waking" THEN "woken"
                             ELSE "none"]
    /\ Goto(t, "idle")
    /\ UNCHANGED << mdfrozen, panel_lock, display_mode, cur_mode,
                    switch_pending, te >>

\* panel_idle: kthread_flush_work
MiFlush ==
    /\ pc["commit"] = "idle"
    /\ switch_work = "idle"
    /\ pdata' = [pdata EXCEPT
                   !.phase = IF pc["attr"] = "idle" THEN "idling" ELSE "none",
                   !.idle_switch = [done |-> FALSE, wanted |-> FALSE,
                                    locked |-> FALSE]]
    /\ Goto("commit", "mi_lock")
    /\ UNCHANGED << mdfrozen, panel_lock, switch_work, display_mode, cur_mode,
                    switch_pending, te >>

MiLock ==
    /\ pc["commit"] = "mi_lock"
    /\ panel_lock = NoOwner
    /\ panel_lock' = "commit"
    /\ Goto("commit", "mi_locked")
    /\ UNCHANGED << mdfrozen, switch_work, display_mode, cur_mode,
                    switch_pending, te, pdata >>

\* panel_idle: with an idle mode of another refresh rate than the current
\* mode's the panel is switched here
MiSwitch ==
    /\ pc["commit"] = "mi_locked"
    /\ IF pdata.idle_mode # 0
          /\ ~is_display_mode_same(pdata.idle_mode, cur_mode)
       THEN /\ display_mode' = pdata.idle_mode
            /\ panel_switch_to_mode("commit", pdata.idle_mode)
       ELSE /\ pdata' = [pdata EXCEPT
                           !.idle_switch = [done |-> FALSE, wanted |-> FALSE,
                                            locked |-> FALSE]]
            /\ UNCHANGED << display_mode, switch_pending >>
    /\ Goto("commit", "mi_unlock")
    /\ UNCHANGED << mdfrozen, panel_lock, switch_work, cur_mode, te >>

MiUnlock ==
    /\ pc["commit"] = "mi_unlock"
    /\ panel_lock' = NoOwner
    /\ pdata' = [pdata EXCEPT
                   !.phase = IF @ = "idling" THEN "idled" ELSE "none"]
    /\ Goto("commit", "idle")
    /\ UNCHANGED << mdfrozen, switch_work, display_mode, cur_mode,
                    switch_pending, te >>

\* panel_wakeup: under panel_lock display_mode is compared with cur_mode;
\* when they differ cur_mode is queued
MwCheck ==
    /\ pc["commit"] = "idle"
    /\ panel_lock = NoOwner
    /\ IF ~is_display_mode_same(display_mode, cur_mode)
       THEN /\ pdata' = [pdata EXCEPT
                           !.new_mode["commit"] = cur_mode,
                           !.wakeups = (@ + 1) % 2,
                           !.phase = IF @ = "idled" THEN "waking" ELSE "none"]
            /\ Goto("commit", "mq_flush")
       ELSE /\ pdata' = [pdata EXCEPT
                           !.wakeups = (@ + 1) % 2,
                           !.phase = IF @ = "idled" THEN "woken" ELSE "none"]
            /\ UNCHANGED pc
    /\ UNCHANGED << mdfrozen, panel_lock, switch_work, display_mode, cur_mode,
                    switch_pending, te >>

\* sysfs_idle_mode_store: "none" or a mode
MaIdleMode(m) ==
    /\ pc["attr"] = "idle"
    /\ panel_lock = NoOwner
    /\ m # pdata.idle_mode
    /\ pdata' = [pdata EXCEPT !.idle_mode = m, !.phase = "none"]
    /\ UNCHANGED << mdfrozen, panel_lock, pc, switch_work, display_mode,
                    cur_mode, switch_pending, te >>

\* a write to the debugfs file te_listen_count
MaTeListenCount(n) ==
    /\ pc["attr"] = "idle"
    /\ n # pdata.switch_te_listen_count
    /\ pdata' = [pdata EXCEPT !.switch_te_listen_count = n, !.phase = "none"]
    /\ UNCHANGED << mdfrozen, panel_lock, pc, switch_work, display_mode,
                    cur_mode, switch_pending, te >>

\* the kthread worker takes the work off its list
MkPick ==
    /\ pc["kworker"] = "idle"
    /\ switch_work = "queued"
    /\ switch_work' = "running"
    /\ Goto("kworker", "mk_start")
    /\ UNCHANGED << mdfrozen, panel_lock, display_mode, cur_mode,
                    switch_pending, te, pdata >>

\* the value of te_listen_cnt the worker tests before it removes the
\* listener, were it read from pdata again
te_listen_cnt_read_again(snapshot, current) == current

\* the value of te_listen_cnt the worker tests before it removes the
\* listener: its local copy
te_listen_cnt_at_exit(snapshot, current) == snapshot

\* the work function returns
MkReturn ==
    /\ switch_work' = work_done(switch_work)
    /\ Goto("kworker", "idle")

\* panel_switch_worker: panel_lock, the snapshot of switch_te_listen_count,
\* reinit_completion and dsi_display_add_te_listener
MkLock ==
    /\ pc["kworker"] = "mk_start"
    /\ panel_lock = NoOwner
    /\ IF display_mode = 0
       THEN MkReturn /\ UNCHANGED << panel_lock, te, pdata >>
       ELSE /\ panel_lock' = "kworker"
            /\ te' = [listening |-> pdata.switch_te_listen_count > 0,
                      left |-> pdata.switch_te_listen_count, rc |-> 0]
            /\ pdata' = [pdata EXCEPT
                           !.te_listen_cnt = pdata.switch_te_listen_count,
                           !.log = IF pdata.switch_te_listen_count > 0
                                   THEN << "reinit", "add" >> ELSE << >>]
            /\ Goto("kworker", "mk_locked")
            /\ UNCHANGED switch_work
    /\ UNCHANGED << mdfrozen, display_mode, cur_mode, switch_pending >>

\* the removal of the listener at the end of panel_switch_worker
MkRemove ==
    IF te_listen_cnt_at_exit(pdata.te_listen_cnt,
                             pdata.switch_te_listen_count) > 0
    THEN /\ te' = [te EXCEPT !.listening = FALSE]
         /\ pdata' = [pdata EXCEPT !.log = Append(@, "remove")]
    ELSE UNCHANGED << te, pdata >>

\* panel_switch_to_mode and mutex_unlock; without a listener nothing is
\* left to do
MkSwitch ==
    /\ pc["kworker"] = "mk_locked"
    /\ panel_switch_to_mode("kworker", display_mode)
    /\ panel_lock' = NoOwner
    /\ IF pdata.te_listen_cnt > 0
       THEN Goto("kworker", "mk_wait") /\ UNCHANGED << switch_work, te >>
       ELSE /\ MkReturn
            /\ UNCHANGED te
    /\ UNCHANGED << mdfrozen, display_mode, cur_mode >>

\* wait_for_completion_timeout; got = 0: timed out.  The first wait is
\* followed by te_listen_cnt--, each extra one too.
MkWaitTe(got) ==
    /\ pc["kworker"] \in {"mk_wait", "mk_extra"}
    /\ pc["kworker"] = "mk_extra" => (te.rc # 0 /\ te.left > 0)
    /\ te' = [te EXCEPT !.rc = got, !.left = te.left - 1]
    /\ pdata' = [pdata EXCEPT !.log = Append(@, "wait")]
    /\ Goto("kworker", "mk_extra")
    /\ UNCHANGED << mdfrozen, panel_lock, switch_work, display_mode, cur_mode,
                    switch_pending >>

\* no extra wait is left or one timed out
MkFinish ==
    /\ pc["kworker"] = "mk_extra"
    /\ ~(te.rc # 0 /\ te.left > 0)
    /\ MkRemove
    /\ MkReturn
    /\ UNCHANGED << mdfrozen, panel_lock, display_mode, cur_mode,
                    switch_pending >>

QsThreads == {"commit", "attr"}

ModesNext ==
    \/ \E m \in Modes : MsPanelSwitch(m)
    \/ \E m \in SwitchModes : MsDebugfs(m)
    \/ \E t \in QsThreads : MqFlush(t)
    \/ \E t \in QsThreads : MqSet(t)
    \/ \E t \in QsThreads : MqQueue(t)
    \/ MiFlush \/ MiLock \/ MiSwitch \/ MiUnlock
    \/ MwCheck
    \/ \E m \in {0} \cup SwitchModes : MaIdleMode(m)
    \/ MkPick \/ MkLock \/ MkSwitch

\* panel_switch_data_init: display_mode is panel->cur_mode, the mode the
\* panel is in
InitModes ==
    /\ BlInit({BaseCfg}) /\ GmInit({DefaultModes}) /\ DtInit /\ AuxInit
    /\ panel_lock = NoOwner
    /\ state_lock = NoOwner
    /\ pc = [t \in Threads |-> "idle"]
    /\ switch_work = "idle"
    /\ gamma_work = "idle"
    /\ display_mode = 1
    /\ cur_mode = 1
    /\ switch_pending = FALSE
    /\ te = [listening |-> FALSE, left |-> 0, rc |-> 0]
    /\ gamma_ready = FALSE
    /\ burst = NoOwner
    /\ last_write = [by |-> NoOwner, locked |-> TRUE, alone |-> TRUE]
    /\ lock_order_ok = TRUE

SpecModes == InitModes /\ [][ModesNext]_vars

\* mode switches from debugfs while te_listen_count is written
TeNext ==
    \/ \E m \in Modes : MsDebugfs(m)
    \/ MqFlush("attr") \/ MqSet("attr") \/ MqQueue("attr")
    \/ \E n \in 0..TeListenCount : MaTeListenCount(n)
    \/ MkPick \/ MkLock \/ MkSwitch
    \/ \E got \in {0, 1} : MkWaitTe(got)
    \/ MkFinish

SpecTe == InitModes /\ [][TeNext]_vars

(***************************************************************************)
(* panel_idle and panel_wakeup.                                            *)
(***************************************************************************)
\* the step in which panel_idle, holding panel_lock, decides on its switch
IdleDecides == pc["commit"] = "mi_locked" /\ pc'["commit"] = "mi_unlock"

\* the step is a call of panel_wakeup up to its mutex_unlock
WakeupChecks == pdata'.wakeups # pdata.wakeups

Quiescent == switch_work = "idle" /\ pc["kworker"] = "idle"

\* panel_idle switches iff an idle mode is set and its refresh rate is not
\* the current mode's, and then to the idle mode, with panel_lock held
IdleSwitchesIffNeeded ==
    [][IdleDecides
       => LET needed == /\ pdata.idle_mode # 0
                        /\ RefreshRate(pdata.idle_mode) # RefreshRate(cur_mode)
          IN  /\ pdata'.idle_switch.done <=> needed
              /\ needed => /\ pdata'.panel_mode = pdata.idle_mode
                           /\ display_mode' = pdata.idle_mode
                           /\ pdata'.idle_switch.locked
                           /\ panel_lock = "commit"
              /\ ~needed => UNCHANGED << display_mode, switch_pending >>
                            /\ pdata'.panel_mode = pdata.panel_mode
              /\ switch_work' = switch_work]_vars

\* panel_wakeup queues cur_mode iff display_mode has another refresh rate
WakeupQueuesIffDiffers ==
    [][WakeupChecks
       => ((pc'["commit"] = "mq_flush"
            /\ pdata'.new_mode["commit"] = cur_mode)
           <=> (display_mode = 0
                \/ RefreshRate(display_mode) # RefreshRate(cur_mode)))
          /\ (pc'["commit"] # "mq_flush" => pc'["commit"] = "idle")]_vars

\* C31: panel_idle switches to idle_mode itself, under panel_lock, iff
\* idle_mode is set and has another refresh rate than cur_mode; panel_wakeup
\* queues cur_mode iff display_mode has another refresh rate than cur_mode;
\* after idle, wakeup and with the worker at rest the panel was last
\* switched to a mode of cur_mode's refresh rate
C31_IdleSwitchesWakeupRestores ==
    /\ IdleSwitchesIffNeeded
    /\ WakeupQueuesIffDiffers
    /\ []((pdata.phase = "woken" /\ Quiescent)
            => RefreshRate(pdata.panel_mode) = RefreshRate(cur_mode))

\* panel_idle switched the 90 Hz panel to its idle mode and panel_wakeup
\* had the worker switch it back
C31_Witness ==
    /\ pdata.phase = "woken" /\ Quiescent
    /\ pdata.idle_switch.done /\ pdata.idle_switch.locked
    /\ cur_mode = 2 /\ pdata.idle_mode # 0
    /\ display_mode = 2 /\ pdata.panel_mode = 2
    /\ ~switch_pending

(***************************************************************************)
(* The TE listener of the switch worker.                                   *)
(***************************************************************************)
Occurrences(log, x) == Cardinality({i \in DOMAIN log : log[i] = x})

\* log[i] = x for some i, and every y of the log comes after it
Precedes(log, x, y) ==
    \E i \in DOMAIN log :
        /\ log[i] = x
        /\ \A j \in DOMAIN log : log[j] = y => i < j

\* the worker is between its snapshot of switch_te_listen_count and its
\* return
InSwitchRun == pc["kworker"] \in {"mk_locked", "mk_wait", "mk_extra"}

\* the listener is registered iff the snapshot was positive
ListenerIffSnapshot ==
    InSwitchRun
      => /\ te.listening <=> pdata.te_listen_cnt > 0
         /\ Occurrences(pdata.log, "add")
              = (IF pdata.te_listen_cnt > 0 THEN 1 ELSE 0)
         /\ Occurrences(pdata.log, "remove") = 0

\* reinit_completion comes before the listener is added, and both before
\* the switch; every wait comes after the switch
ResetBeforeSwitch ==
    Occurrences(pdata.log, "add") > 0
      => /\ Precedes(pdata.log, "reinit", "add")
         /\ Precedes(pdata.log, "add", "switch")
         /\ Precedes(pdata.log, "add", "wait")
         /\ Occurrences(pdata.log, "switch") > 0
              => Precedes(pdata.log, "switch", "wait")

\* once the worker has returned the listener is gone, removed once if it
\* was added and not at all otherwise
RemovedAtReturn ==
    /\ Occurrences(pdata.log, "remove") <= Occurrences(pdata.log, "add")
    /\ pc["kworker"] \in {"idle", "mk_start"}
         => /\ ~te.listening
            /\ Occurrences(pdata.log, "remove")
                 = Occurrences(pdata.log, "add")
            /\ Occurrences(pdata.log, "add") > 0
                 => /\ Precedes(pdata.log, "switch", "remove")
                    /\ Precedes(pdata.log, "wait", "remove")

\* C33: in each run of the switch worker the TE listener is registered iff
\* the snapshot of te_listen_count is positive, the completion is reset
\* before the switch, and a registered listener is deregistered before the
\* worker returns whatever the waits return and whatever is written to
\* te_listen_count meanwhile; it is never removed without being registered
C33_TeListenerPaired ==
    /\ ListenerIffSnapshot
    /\ ResetBeforeSwitch
    /\ RemovedAtReturn

\* a run that listened for two TEs has returned, te_listen_count having
\* been set to 0 under it
C33_Witness ==
    /\ pc["kworker"] = "idle" /\ switch_work = "idle"
    /\ pdata.te_listen_cnt = 2
    /\ pdata.switch_te_listen_count = 0
    /\ pdata.log = << "reinit", "add", "switch", "wait", "wait", "remove" >>
    /\ ~te.listening

(***************************************************************************)
(* switch_pending and the mode last sent to the panel.                     *)
(***************************************************************************)
\* with nothing pending and the worker at rest the panel is in the mode
\* of the most recent panel_queue_switch or switching panel_idle
SettledOnLastRequest ==
    (~switch_pending /\ Quiescent) => pdata.panel_mode = pdata.last_req

\* switch_pending goes from true to false only when the mode of the latest
\* panel_queue_switch has been sent
PendingClearedWhenSent ==
    [][(switch_pending /\ ~switch_pending') => pdata'.unsent = 0]_vars

\* C35: whenever switch_pending is false and no switch work is queued or
\* running, the panel was last switched to the mode of the most recent
\* queue_switch or panel_idle, and switch_pending is never cleared while a
\* mode requested by queue_switch has not been sent to the panel
C35_PendingMeansUnsent ==
    /\ []SettledOnLastRequest
    /\ PendingClearedWhenSent

(***************************************************************************)
(* dsi_panel_switch_destroy against the worker's use of the per-mode       *)
(* switch data.                                                            *)
(***************************************************************************)
dsfrozen ==
    << blvars, gmvars, dtvars, after_allow, dimming_work, lerp_io, irc_io,
       state_lock, gamma_ready, burst, last_write, lock_order_ok, cur_mode,
       switch_pending, te >>

\* a switch to mode m is queued while the panel is in use
DsQueueSwitch(m) ==
    /\ pc["panel"] = "idle"
    /\ panel_lock = NoOwner
    /\ display_mode' = m
    /\ switch_work' = queue_work(switch_work)
    /\ UNCHANGED << dsfrozen, panel_lock, pc, gamma_work, pdata >>

\* s6e3hc2_post_enable flushes the gamma work and queues the gamma read
DsQueueGamma ==
    /\ pc["panel"] = "idle"
    /\ gamma_work = "idle"
    /\ gamma_work' = queue_work(gamma_work)
    /\ UNCHANGED << dsfrozen, panel_lock, pc, switch_work, display_mode,
                    pdata >>

\* the worker thread takes a work off its list, unless kthread_stop has
\* ended it
DkPick(work) ==
    /\ pc["kworker"] = "idle"
    /\ ~pdata.stopped
    /\ \/ /\ work = "switch"
          /\ switch_work = "queued"
          /\ switch_work' = "running"
          /\ UNCHANGED gamma_work
       \/ /\ work = "gamma"
          /\ gamma_work = "queued"
          /\ gamma_work' = "running"
          /\ UNCHANGED switch_work
    /\ Goto("kworker", IF work = "switch" THEN "dk_start" ELSE "dg_start")
    /\ UNCHANGED << dsfrozen, panel_lock, display_mode, pdata >>

\* mutex_lock(&panel->panel_lock) in either work function
DkLock ==
    /\ pc["kworker"] \in {"dk_start", "dg_start"}
    /\ panel_lock = NoOwner
    /\ panel_lock' = "kworker"
    /\ Goto("kworker", IF pc["kworker"] = "dk_start" THEN "dk_locked"
                                                     ELSE "dg_locked")
    /\ UNCHANGED << dsfrozen, switch_work, gamma_work, display_mode, pdata >>

\* priv_data = mode->priv_info->switch_data: NULL once put_mode has run;
\* the replay then returns, the gamma read allocates buffers of its own
DkGetData ==
    /\ pc["kworker"] \in {"dk_locked", "dg_locked"}
    /\ Goto("kworker",
            IF pdata.freed THEN "dk_unlock"
            ELSE IF pc["kworker"] = "dk_locked" THEN "dk_replay"
            ELSE "dg_read")
    /\ UNCHANGED << dsfrozen, panel_lock, switch_work, gamma_work,
                    display_mode, pdata >>

\* s6e3hc2_gamma_update sends priv_data->gamma_data[i], the gamma read
\* fills it: through the pointer taken before
DkUseData ==
    /\ pc["kworker"] \in {"dk_replay", "dg_read"}
    /\ pdata' = [pdata EXCEPT !.uaf = @ \/ pdata.freed,
                              !.panel_mode = display_mode]
    /\ Goto("kworker", "dk_unlock")
    /\ UNCHANGED << dsfrozen, panel_lock, switch_work, gamma_work,
                    display_mode >>

\* mutex_unlock and the return of the work function
DkUnlock ==
    /\ pc["kworker"] = "dk_unlock"
    /\ panel_lock' = NoOwner
    /\ IF switch_work \in {"running", "requeued"}
       THEN switch_work' = work_done(switch_work) /\ UNCHANGED gamma_work
       ELSE gamma_work' = work_done(gamma_work) /\ UNCHANGED switch_work
    /\ Goto("kworker", "idle")
    /\ UNCHANGED << dsfrozen, display_mode, pdata >>

\* dsi_panel_switch_destroy: dsi_panel_switch_put_mode for every mode,
\* without panel_lock
DdPutModes ==
    /\ pc["panel"] = "idle"
    /\ pdata' = [pdata EXCEPT !.freed = TRUE]
    /\ Goto("panel", "dd_flush")
    /\ UNCHANGED << dsfrozen, panel_lock, switch_work, gamma_work,
                    display_mode >>

\* funcs->destroy, panel_switch_data_deinit: kthread_flush_worker returns
\* when no work is left
DdFlush ==
    /\ pc["panel"] = "dd_flush"
    /\ switch_work = "idle" /\ gamma_work = "idle"
    /\ Goto("panel", "dd_stop")
    /\ UNCHANGED << dsfrozen, panel_lock, switch_work, gamma_work,
                    display_mode, pdata >>

\* kthread_stop
DdStop ==
    /\ pc["panel"] = "dd_stop"
    /\ pc["kworker"] = "idle"
    /\ pdata' = [pdata EXCEPT !.stopped = TRUE]
    /\ Goto("panel", "dd_done")
    /\ UNCHANGED << dsfrozen, panel_lock, switch_work, gamma_work,
                    display_mode >>

DestroyNext ==
    \/ \E m \in SwitchModes : DsQueueSwitch(m)
    \/ DsQueueGamma
    \/ \E work \in {"switch", "gamma"} : DkPick(work)
    \/ DkLock \/ DkGetData \/ DkUseData \/ DkUnlock
    \/ DdPutModes \/ DdFlush \/ DdStop

SpecDestroy == InitModes /\ [][DestroyNext]_vars

\* no work function has used gamma buffers that were freed
NoUseAfterFree == ~pdata.uaf

\* C36: during teardown neither the gamma replay nor the gamma read of the
\* worker touches a mode's gamma buffers after they were freed; the
\* per-mode switch data is released only once the worker has been flushed
\* and stopped
C36_NoGammaUseAfterFree ==
    /\ NoUseAfterFree
    /\ pdata.freed => pdata.stopped

(***************************************************************************)
(* Where the IRC bytes written to the panel come from.                     *)
(***************************************************************************)
IrcSize == (irc_io.bit_offset \div BITS_PER_BYTE) + 1

\* the data of the dcs_write commands of the last call
IrcWritten ==
    {irc_io.out.cmds[i][3] :
        i \in {j \in 1..Len(irc_io.out.cmds) :
                 irc_io.out.cmds[j][1] = "dcs_write"}}

\* bytes are the first bytes of the register reg but for the IRC bit
SameButIrcBit(bytes, reg) ==
    LET mask == BIT(irc_io.bit_offset % BITS_PER_BYTE)
    IN  /\ Len(bytes) = IrcSize
        /\ \A i \in 1..IrcSize :
              IF i = IrcSize
              THEN AndNotBit(bytes[i], mask) = AndNotBit(reg[i], mask)
              ELSE bytes[i] = reg[i]

\* what is written is what a full read of irc_addr gave, the IRC bit apart
IrcWritesDeriveFromRead ==
    \A bytes \in IrcWritten : \E reg \in IrcRegs : SameButIrcBit(bytes, reg)

\* the call after a failed or short read writes only if it has read again
IrcRereadsAfterFailure ==
    [][(IrcReadFailed /\ IrcWrites(irc_io'.out.cmds) > 0)
         => irc_io'.out.read]_vars

\* C37: across any sequence of update_irc calls the IRC bytes written to
\* the panel are those of a successful full read of irc_addr with only the
\* IRC bit changed, and a toggle that follows a failed or short read reads
\* the register again before it writes
C37_IrcWritesOnlyReadData ==
    /\ []IrcWritesDeriveFromRead
    /\ IrcRereadsAfterFailure

(***************************************************************************)
(* bl_actual and the brightness writes.                                    *)
(***************************************************************************)
\* the commands of the handler that ends with this step hold a successful
\* brightness write of level
WroteLevel(cmds, level) ==
    \E i \in DOMAIN cmds : cmds[i] = << "set_display_brightness", level >>

\* C32: bl_actual is the last brightness value written to the panel: no
\* step changes bl_actual without a successful write of the new value,
\* whether or not the panel is initialized
C32_BlActualIsLastWritten ==
    [][bl_actual' # bl_actual => WroteLevel(out'.cmds, bl_actual')]_vars

(***************************************************************************)
(* dsi_backlight_update_status step by step: the two mutexes, the body,    *)
(* the unlocks and the event sent to user space.                           *)
(***************************************************************************)
wsfrozen == << switch_work, gamma_work, display_mode, cur_mode,
               switch_pending, te, gamma_ready, burst, last_write,
               lock_order_ok, sidevars >>

WsLockPanel ==
    /\ pc["backlight"] = "idle"
    /\ registered
    /\ panel_lock = NoOwner
    /\ panel_lock' = "backlight"
    /\ Goto("backlight", "ws_panel")
    /\ UNCHANGED << blvars, state_lock, wsfrozen >>

WsLockState ==
    /\ pc["backlight"] = "ws_panel"
    /\ state_lock = NoOwner
    /\ state_lock' = "backlight"
    /\ Goto("backlight", "ws_locked")
    /\ UNCHANGED << blvars, panel_lock, wsfrozen >>

\* from the test of props.state to the label done
WsBody(b, e) ==
    /\ pc["backlight"] = "ws_locked"
    /\ UpdateStatus(b, e)
    /\ Goto("backlight", "ws_done")
    /\ UNCHANGED << panel_lock, state_lock, wsfrozen >>

\* done: both mutex_unlock, then the test of need_notify && brightness
WsUnlock ==
    /\ pc["backlight"] = "ws_done"
    /\ state_lock' = NoOwner
    /\ panel_lock' = NoOwner
    /\ Goto("backlight", IF out.notify THEN "ws_notify" ELSE "idle")
    /\ UNCHANGED << blvars, wsfrozen >>

\* sde_connector_event_notify(DRM_EVENT_SYS_BACKLIGHT) and the return
WsNotify ==
    /\ pc["backlight"] = "ws_notify"
    /\ Goto("backlight", "idle")
    /\ UNCHANGED << blvars, panel_lock, state_lock, wsfrozen >>

\* what else happens to the backlight happens between the calls, so that
\* out stays the record of the call until it has returned
WsLocksFree ==
    /\ panel_lock = NoOwner /\ state_lock = NoOwner
    /\ pc["backlight"] = "idle"

WriteNext ==
    \/ WsLockPanel \/ WsLockState
    \/ \E b \in 0..MaxBri, e \in Env(cfg) : WsBody(b, e)
    \/ WsUnlock \/ WsNotify
    \/ \E m \in cfg.dpms, e \in Env(cfg) :
           WsLocksFree /\ LateDpms(m, e) /\ UNCHANGED << lkvars, sidevars >>
    \/ \E v \in cfg.gates :
           WsLocksFree /\ SetAllowBlUpdate(v)
               /\ UNCHANGED << lkvars, sidevars >>
    \/ \E v \in cfg.gates :
           WsLocksFree /\ SetPanelInitialized(v)
               /\ UNCHANGED << lkvars, sidevars >>

SpecWrite == Init /\ [][WriteNext]_vars

\* the step is the body of an update_status, called by the backlight core
\* or by dsi_backlight_late_dpms, whose writer failed
WriterFailed ==
    /\ \/ pc["backlight"] = "ws_locked" /\ pc'["backlight"] = "ws_done"
       \/ pc' = pc /\ out'.op = "late_dpms"
    /\ out'.path = "failed"

\* the step sends the brightness event
EventSent == pc["backlight"] = "ws_notify" /\ pc'["backlight"] = "idle"

\* the call returns the error and emits nothing; last_state and
\* bl_update_pending are as before
FailedWriteReturnsError ==
    WriterFailed => /\ out'.rc # 0
                    /\ ~out'.notify
                    /\ last_state' = last_state
                    /\ bl_update_pending' = bl_update_pending

\* update_status has returned, or is about to send its event: it holds no
\* mutex
NoLockAfterDone ==
    pc["backlight"] \in {"idle", "ws_notify"}
        => (panel_lock # "backlight" /\ state_lock # "backlight")

\* the event follows a successful write of a brightness above 0 and both
\* unlocks
EventOnlyAfterWrite ==
    EventSent => /\ out.path = "written" /\ out.rc = 0
                 /\ out.brightness > 0
                 /\ panel_lock # "backlight" /\ state_lock # "backlight"

\* C34: when the writer fails in update_status the call returns the error,
\* bl_actual, last_state and bl_update_pending are unchanged, both locks
\* are released and no brightness event is emitted; the event is emitted
\* only after a successful write with brightness > 0 and after both locks
\* have been released
C34_FailedWriteChangesNothing ==
    /\ [][/\ FailedWriteReturnsError
          /\ WriterFailed => bl_actual' = bl_actual
          /\ EventOnlyAfterWrite]_vars
    /\ []NoLockAfterDone

\* C34, amended: the same, but the binned-LP writer that leaves LP has
\* invalidated bl_actual before its brightness write failed
C34_FailedWriteKeepsOrInvalidates ==
    /\ [][/\ FailedWriteReturnsError
          /\ WriterFailed
                => \/ bl_actual' = bl_actual
                   \/ /\ cfg.update_bl = "binned"
                      /\ last_lp_mode # NULLP /\ last_lp_mode' = NULLP
                      /\ bl_actual' = BL_ACTUAL_INVALID
          /\ EventOnlyAfterWrite]_vars
    /\ []NoLockAfterDone

\* an update_status whose brightness write failed has returned the error
\* with the level it had, and holds no lock
C34_Witness ==
    /\ pc["backlight"] = "idle"
    /\ out.op = "update_status" /\ out.path = "failed" /\ out.rc = EIO
    /\ out.brightness > 0 /\ ~out.notify
    /\ bl_actual # out.bl_lvl /\ bl_actual # BL_ACTUAL_INVALID
    /\ WsLocksFree

\* late_dpms(ON) took a binned panel out of LP and its write failed
LeftLpAndWriteFailed ==
    /\ cfg.update_bl = "binned"
    /\ out.op = "late_dpms" /\ out.arg = SDE_MODE_DPMS_ON
    /\ out.path = "failed"
    /\ bl_actual = BL_ACTUAL_INVALID

(***************************************************************************)
(* The DPMS mode read back.                                                *)
(***************************************************************************)
\* dsi_backlight_get_dpms on props.power and props.state
dsi_backlight_get_dpms(power, state) ==
    IF power = FB_BLANK_POWERDOWN THEN SDE_MODE_DPMS_OFF
    ELSE IF LP2 \in state THEN SDE_MODE_DPMS_LP2
    ELSE IF LP \in state THEN SDE_MODE_DPMS_LP1
    ELSE SDE_MODE_DPMS_ON

\* get_state_after_dpms leaves SUSPENDED as it is, whatever the state
DpmsKeepsSuspended ==
    \A s \in SUBSET Flags, m \in DpmsModes :
        (SUSPENDED \in get_state_after_dpms(s, m)) <=> (SUSPENDED \in s)

\* C38: after the late DPMS phase for a mode m, from whatever state,
\* dsi_backlight_get_dpms reports m, also for LP1 and LP2 requested while
\* off, and no DPMS phase changes the SUSPENDED flag
C38_GetDpmsReportsRequested ==
    /\ DpmsKeepsSuspended
    /\ out.op = "late_dpms"
         => dsi_backlight_get_dpms(props_power, props_state) = out.arg

(***************************************************************************)
(* What a no-op or gated update_status leaves behind.                      *)
(***************************************************************************)
\* the call ends at the unchanged level and state, or at the gate
NoopOrGatedCall == UpdateCall /\ out'.path \in {"noop", "gated"}

\* C39: an update_status call that ends as a no-op or is gated emits no
\* panel command and leaves cur_range, dimming_active and the dimming frame
\* counters as they were
C39_NoopAndGatedTouchNothing ==
    [][NoopOrGatedCall
         => /\ out'.cmds = << >>
            /\ hbm'.cur_range = hbm.cur_range
            /\ hbm'.dimming_active = hbm.dimming_active
            /\ hbm'.dimming_frames_total = hbm.dimming_frames_total
            /\ hbm'.dimming_frames_left = hbm.dimming_frames_left]_vars

(***************************************************************************)
(* The state of the dimming controller.                                    *)
(***************************************************************************)
\* the frame counters are ordered, and an inactive controller has none and
\* no stop command
DimmingCountersSane ==
    /\ hbm.dimming_frames_left <= hbm.dimming_frames_total
    /\ ~hbm.dimming_active
         => /\ hbm.dimming_frames_left = 0
            /\ hbm.dimming_frames_total = 0
            /\ hbm.dimming_stop_cmd = NULLP

\* C40: in every reachable state the dimming controller holds exactly one
\* CRTC vblank reference if dimming_active and none otherwise,
\* dimming_frames_left <= dimming_frames_total, and an inactive controller
\* has both counters 0 and no recorded stop command
C40_DimmingControllerState ==
    /\ hbm.dimming_active => vblank_refs = 1
    /\ ~hbm.dimming_active => vblank_refs = 0
    /\ DimmingCountersSane

====
